---------------------------- MODULE Spec2Model ----------------------------
(***************************************************************************)
(* A model of the binary table converters of                               *)
(* Lib/fontTools/ttLib/tables/otConverters.py.                             *)
(*                                                                         *)
(* Every converter family gets its own variables, its own initial          *)
(* predicate and its own next-state relation; a specification of one       *)
(* family keeps the variables of the other families at their idle value.   *)
(* Bytes are numbers 0..255, byte strings are sequences of bytes, and a    *)
(* byte offset p addresses the element p + 1 of a sequence.                *)
(***************************************************************************)
EXTENDS Integers, Sequences, FiniteSets, TLC

VARIABLES
    glyphOrder,     \* font.getGlyphOrder(): glyph names in glyph ID order
    lkValueSize,    \* AATLookup.converter.staticSize
    lkValue,        \* the glyph name -> value mapping handed to AATLookup.write
    lkOut1,         \* outcome of the first AATLookup.write
    lkOut2,         \* outcome of encoding the same mapping again
    lkData,         \* the bytes handed to the last AATLookup.read
    lkRead,         \* outcome of the last AATLookup.read
    stxActionClass, \* STXHeader.tableClass: the AATAction subclass
    stxTable,       \* the AATStateTable handed to STXHeader.write
    stxOut,         \* outcome of STXHeader.write
    stxRead,        \* outcome of STXHeader.read of the bytes written
    lzFontLazy,     \* font.lazy
    lzConv,         \* the element converter of the array
    lzTableDict,    \* the tableDict handed to readArray
    lzData,         \* the bytes under the reader
    lzCount,        \* the count handed to readArray
    lzReaderPos,    \* reader.pos of the reader handed to readArray
    lzList,         \* the list readArray returned
    lzGot,          \* what the last __getitem__ of the list returned
    lzReads,        \* per position, the conv.read calls the list has made
    tbConv,         \* the offset converter: its class
    tbValue,        \* the value handed to write: None or a table
    tbRepeatIndex,  \* the repeatIndex handed to write
    tbWriter0,      \* the writer before write
    tbWriter,       \* the writer
    tbWrote,        \* whether write has returned
    tbFontLazy,     \* font.lazy
    tbData,         \* the bytes under the reader handed to read
    tbReaderPos,    \* reader.pos of the reader handed to read
    tbRead,         \* outcome of read
    swSchema,       \* the converters of the struct's table class
    swStructLength, \* value.StructLength
    swWriter0,      \* the writer before StructWithLength.write
    swWriter,       \* the writer
    swOut,          \* outcome of StructWithLength.write
    dvTableDict,    \* the tableDict of the Device table: StartSize, EndSize, DeltaFormat
    dvValue,        \* the DeltaValue list handed to DeltaValue.write
    dvWritten,      \* outcome of DeltaValue.write
    dvRead,         \* outcome of DeltaValue.read on the bytes written
    vmFormat,       \* tableDict['EntryFormat'] of the DeltaSetIndexMap
    vmMapping,      \* the mapping handed to VarIdxMapValue.write
    vmWritten,      \* outcome of VarIdxMapValue.write
    vmRead,         \* outcome of VarIdxMapValue.read on the bytes written
    prFont,         \* font._propagator: whether the attribute exists, and its names
    prCalls,        \* the number of top-level Struct.xmlRead calls made on the font
    prLast,         \* the last top-level call: its element and its outcome
    vdTableDict,    \* the tableDict of the VarData table: VarRegionCount, NumShorts
    vdValue,        \* the row handed to VarDataValue.write
    vdWritten,      \* outcome of VarDataValue.write
    vdRead,         \* outcome of VarDataValue.read on the bytes written
    srSchema,       \* the struct's table class: the size of StructLength, the bytes of its other fields
    srData,         \* the bytes under the reader handed to StructWithLength.read
    srStart,        \* reader.pos when StructWithLength.read is called
    srRead,         \* outcome of StructWithLength.read
    imFont,         \* font._propagator during an import: whether it exists, and its cells by name
    imStack,        \* the xmlRead calls in progress, outermost first: class, content left, table
    imTables,       \* the number of tables the import has created
    imStatus,       \* the import: running, done, or the exception that ended it
    cidData,        \* the bytes under the reader handed to GlyphCIDMap.read
    cidStart,       \* reader.pos when GlyphCIDMap.read is called
    cidRead         \* outcome of GlyphCIDMap.read

lookupVars == <<lkValueSize, lkValue, lkOut1, lkOut2, lkData, lkRead>>

stxVars == <<stxActionClass, stxTable, stxOut, stxRead>>

lazyVars == <<lzFontLazy, lzConv, lzTableDict, lzData, lzCount, lzReaderPos,
              lzList, lzGot, lzReads>>

tableVars == <<tbConv, tbValue, tbRepeatIndex, tbWriter0, tbWriter, tbWrote,
               tbFontLazy, tbData, tbReaderPos, tbRead>>

swlVars == <<swSchema, swStructLength, swWriter0, swWriter, swOut>>

deltaVars == <<dvTableDict, dvValue, dvWritten, dvRead>>

varIdxVars == <<vmFormat, vmMapping, vmWritten, vmRead>>

propagatorVars == <<prFont, prCalls, prLast>>

varDataVars == <<vdTableDict, vdValue, vdWritten, vdRead>>

structReadVars == <<srSchema, srData, srStart, srRead>>

importVars == <<imFont, imStack, imTables, imStatus>>

cidVars == <<cidData, cidStart, cidRead>>

vars == <<glyphOrder, lookupVars, stxVars, lazyVars, tableVars, swlVars, deltaVars,
          varIdxVars, propagatorVars,
    varDataVars,
    structReadVars,
    importVars,
    cidVars>>

\* The variables a specification of one family leaves alone.
OutsideLookup == <<stxVars, lazyVars, tableVars, swlVars, deltaVars,
    varIdxVars, propagatorVars,
    varDataVars,
    structReadVars,
    importVars,
    cidVars>>

OutsideStx == <<lookupVars, lazyVars, tableVars, swlVars, deltaVars,
    varIdxVars, propagatorVars,
    varDataVars,
    structReadVars,
    importVars,
    cidVars>>

OutsideLazy == <<glyphOrder, lookupVars, stxVars, tableVars, swlVars, deltaVars,
    varIdxVars, propagatorVars,
    varDataVars,
    structReadVars,
    importVars,
    cidVars>>

OutsideTable == <<glyphOrder, lookupVars, stxVars, lazyVars, swlVars, deltaVars,
    varIdxVars, propagatorVars,
    varDataVars,
    structReadVars,
    importVars,
    cidVars>>

OutsideSwl == <<glyphOrder, lookupVars, stxVars, lazyVars, tableVars, deltaVars,
    varIdxVars, propagatorVars,
    varDataVars,
    structReadVars,
    importVars,
    cidVars>>

OutsideDelta == <<glyphOrder, lookupVars, stxVars, lazyVars, tableVars, swlVars,
    varIdxVars, propagatorVars,
    varDataVars,
    structReadVars,
    importVars,
    cidVars>>

OutsideVarIdx == <<glyphOrder, lookupVars, stxVars, lazyVars, tableVars, swlVars,
    deltaVars, propagatorVars,
    varDataVars,
    structReadVars,
    importVars,
    cidVars>>

OutsidePropagator == <<glyphOrder, lookupVars, stxVars, lazyVars, tableVars, swlVars,
    deltaVars, varIdxVars,
    varDataVars,
    structReadVars,
    importVars,
    cidVars>>

OutsideVarData == <<glyphOrder, lookupVars, stxVars, lazyVars, tableVars, swlVars, deltaVars, varIdxVars, propagatorVars,
    structReadVars,
    importVars,
    cidVars>>

OutsideStructRead == <<glyphOrder, lookupVars, stxVars, lazyVars, tableVars, swlVars, deltaVars, varIdxVars, propagatorVars, varDataVars,
    importVars,
    cidVars>>

OutsideImport == <<glyphOrder, lookupVars, stxVars, lazyVars, tableVars, swlVars, deltaVars, varIdxVars, propagatorVars, varDataVars, structReadVars,
    cidVars>>

OutsideCid == <<glyphOrder, lookupVars, stxVars, lazyVars, tableVars, swlVars, deltaVars, varIdxVars, propagatorVars, varDataVars, structReadVars, importVars>>

----------------------------------------------------------------------------
(* Bounds of the model. *)

\* Number of glyphs of the small fonts.
MaxGlyphs == 4

\* Number of glyphs of the font that carries the mapping of glyphs 10..13.
BigFontGlyphs == 14

\* Largest leading format code handed to AATLookup.read.
MaxFormatCode == 9

\* Number of glyphs of the font of the state tables.
StxGlyphs == 1

\* Largest class index of a state table.
MaxClass == 1

\* Largest number of states of a state table.
MaxStates == 1

\* Largest number of per-glyph lookups of a state table.
MaxLookups == 2

\* Largest count handed to readArray.
MaxCount == 9

\* Largest number of accesses made to a lazy list.
MaxAccesses == 2

\* Largest length of a slice taken from a lazy list.
MaxSliceLen == 2

\* reader.pos when readArray is called.
StartPos == 1

\* Largest repeatIndex handed to the write of an offset converter.
MaxRepeatIndex == 1

\* Largest number of converters that precede StructLength in a table class.
MaxBefore == 2

\* Largest number of items one converter before StructLength emits.
MaxItems == 2

\* Largest DeltaFormat handed to DeltaValue.
MaxDeltaFormat == 4

\* Largest number of sizes of a Device table, EndSize - StartSize + 1.
MaxDeltaItems == 9

\* Largest length of the delta lists that are enumerated in full.
MaxFreeItems == 3

\* Largest number of entries of a DeltaSetIndexMap.
MaxMappingCount == 2

\* Largest VarRegionCount and largest NumShorts of a VarData table.
MaxRegionCount == 3

MaxNumShorts == 3

\* Largest number of glyphs of a font a GlyphCIDMap is read for.
MaxCidGlyphs == 3

\* Largest count a GlyphCIDMap stores.
MaxCidCount == 4

\* Largest StructLength a struct declares.
MaxStructLength == 6

\* Largest number of bytes the fields after StructLength take, and largest
\* number of bytes that follow StructLength under the reader.
MaxFieldBytes == 4

\* Largest number of top-level Struct.xmlRead calls on a font.
MaxCalls == 2

\* Largest number of child elements of an element.
MaxChildren == 2

----------------------------------------------------------------------------
(* Arithmetic and byte strings. *)

RECURSIVE Pow(_, _)
Pow(b, e) == IF e = 0 THEN 1 ELSE b * Pow(b, e - 1)

Min2(a, b) == IF a <= b THEN a ELSE b

Max2(a, b) == IF a >= b THEN a ELSE b

RECURSIVE BitAnd(_, _)
BitAnd(a, b) ==
    IF a = 0 \/ b = 0 THEN 0
    ELSE (IF a % 2 = 1 /\ b % 2 = 1 THEN 1 ELSE 0) + 2 * BitAnd(a \div 2, b \div 2)

RECURSIVE BitOr(_, _)
BitOr(a, b) ==
    IF a = 0 THEN b
    ELSE IF b = 0 THEN a
    ELSE (IF a % 2 = 1 \/ b % 2 = 1 THEN 1 ELSE 0) + 2 * BitOr(a \div 2, b \div 2)

\* struct.pack of an unsigned big-endian integer of w bytes.
BE(n, w) == [i \in 1..w |-> (n \div Pow(256, w - i)) % 256]

\* struct.unpack of the w bytes at byte offset pos.
RECURSIVE FromBE(_, _, _)
FromBE(data, pos, w) ==
    IF w = 0 THEN 0
    ELSE FromBE(data, pos, w - 1) * 256 + data[pos + w]

Zeros(n) == [i \in 1..n |-> 0]

\* Whether the w bytes at byte offset pos lie inside data.
InData(data, pos, w) == pos >= 0 /\ pos + w <= Len(data)

RECURSIVE Perms(_)
Perms(S) ==
    IF S = {} THEN {<<>>}
    ELSE UNION {{<<x>> \o p : p \in Perms(S \ {x})} : x \in S}

RECURSIVE Flatten(_)
Flatten(ss) == IF ss = <<>> THEN <<>> ELSE Head(ss) \o Flatten(Tail(ss))

----------------------------------------------------------------------------
(* The font's glyph namespace.  Glyph names are numbers; the name of a      *)
(* glyph is not its glyph ID, and names descend while glyph IDs ascend.     *)

GlyphOrderOf(numGlyphs) == [i \in 1..numGlyphs |-> 100 + numGlyphs - i]

getGlyphID(order, glyph) == (CHOOSE i \in 1..Len(order) : order[i] = glyph) - 1

\* An out-of-range glyph ID gets a synthesized name instead of a failure.
getGlyphName(order, gid) ==
    IF gid < Len(order) THEN order[gid + 1] ELSE 100000 + gid

----------------------------------------------------------------------------
(* The byte sink: the scalar writes of OTTableWriter, as the bytes they     *)
(* append.                                                                  *)

writeUInt8(value) == BE(value, 1)

writeUShort(value) == BE(value, 2)

writeULong(value) == BE(value, 4)

\* The write method of the integer converter whose staticSize is valueSize
\* (UInt8, UShort, UInt24, ULong).
IntValue_write(valueSize, value) == BE(value, valueSize)

\* The read method of the same converter, at byte offset pos.
IntValue_read(valueSize, data, pos) == FromBE(data, pos, valueSize)

----------------------------------------------------------------------------
(* fontTools.ttLib.getSearchRange, the binary-search header values.         *)

RECURSIVE BitLength(_)
BitLength(x) == IF x = 0 THEN 0 ELSE 1 + BitLength(x \div 2)

maxPowerOfTwo(x) == Max2(BitLength(x) - 1, 0)

getSearchRange(n, itemSize) ==
    LET exponent == maxPowerOfTwo(n)
        searchRange == Pow(2, exponent) * itemSize
    IN  <<searchRange, exponent, Max2(0, n * itemSize - searchRange)>>

----------------------------------------------------------------------------
(* AATLookup.write and the four encoders.                                   *)

BIN_SEARCH_HEADER_SIZE == 10

\* Python's order of (glyph ID, value) tuples.
PairLess(a, b) == a[1] < b[1] \/ (a[1] = b[1] /\ a[2] < b[2])

RECURSIVE InsertSorted(_, _)
InsertSorted(p, s) ==
    IF s = <<>> THEN <<p>>
    ELSE IF PairLess(p, Head(s)) THEN <<p>> \o s
    ELSE <<Head(s)>> \o InsertSorted(p, Tail(s))

RECURSIVE sorted(_)
sorted(s) == IF s = <<>> THEN <<>> ELSE InsertSorted(Head(s), sorted(Tail(s)))

\* The list built without the call of sorted().
LookupValues_unsorted(order, items) ==
    [i \in 1..Len(items) |-> <<getGlyphID(order, items[i][1]), items[i][2]>>]

\* values = list(sorted([(font.getGlyphID(glyph), val) for glyph, val in value.items()]))
\* where items is value.items() in the order the dict enumerates it.
LookupValues(order, items) ==
    sorted([i \in 1..Len(items) |-> <<getGlyphID(order, items[i][1]), items[i][2]>>])

writeBinSearchHeader(numUnits, unitSize) ==
    LET sr == getSearchRange(numUnits, unitSize)
    IN  writeUShort(unitSize) \o writeUShort(numUnits) \o writeUShort(sr[1])
        \o writeUShort(sr[2]) \o writeUShort(sr[3])

writeFormat0(values, valueSize) ==
    writeUShort(0)
    \o Flatten([i \in 1..Len(values) |-> IntValue_write(valueSize, values[i][2])])

\* The candidate list entry of a format: <<>> stands for None.
buildFormat0(numGlyphs, values, valueSize) ==
    IF Len(values) # numGlyphs THEN <<>>
    ELSE <<[dataSize |-> 2 + numGlyphs * valueSize, lookupFormat |-> 0,
            data |-> writeFormat0(values, valueSize)]>>

\* The loop of buildFormat2 without the comparison of the values: adjacent
\* glyphs are merged whatever they map to.
RECURSIVE Format2Segments_any_value(_, _, _, _, _)
Format2Segments_any_value(values, i, segStart, segEnd, segValue) ==
    IF i > Len(values) THEN << <<segStart, segEnd, segValue>> >>
    ELSE LET glyphID == values[i][1]
             curValue == values[i][2]
         IN  IF glyphID # segEnd + 1
             THEN << <<segStart, segEnd, segValue>> >>
                  \o Format2Segments_any_value(values, i + 1, glyphID, glyphID, curValue)
             ELSE Format2Segments_any_value(values, i + 1, segStart, glyphID, segValue)

\* The loop of buildFormat2 from element i on, with the run in progress.
RECURSIVE Format2Segments(_, _, _, _, _)
Format2Segments(values, i, segStart, segEnd, segValue) ==
    IF i > Len(values) THEN << <<segStart, segEnd, segValue>> >>
    ELSE LET glyphID == values[i][1]
             curValue == values[i][2]
         IN  IF glyphID # segEnd + 1 \/ curValue # segValue
             THEN << <<segStart, segEnd, segValue>> >>
                  \o Format2Segments(values, i + 1, glyphID, glyphID, curValue)
             ELSE Format2Segments(values, i + 1, segStart, glyphID, segValue)

\* writeFormat2 that writes firstGlyph before lastGlyph.
writeFormat2_first_last(segments, valueSize) ==
    LET numUnits == Len(segments)
        unitSize == valueSize + 4
    IN  writeUShort(2)
        \o writeBinSearchHeader(numUnits, unitSize)
        \o Flatten([i \in 1..Len(segments) |->
              writeUShort(segments[i][1]) \o writeUShort(segments[i][2])
              \o IntValue_write(valueSize, segments[i][3])])
        \o writeUShort(65535) \o writeUShort(65535) \o Zeros(valueSize)

writeFormat2(segments, valueSize) ==
    LET numUnits == Len(segments)
        unitSize == valueSize + 4
    IN  writeUShort(2)
        \o writeBinSearchHeader(numUnits, unitSize)
        \o Flatten([i \in 1..Len(segments) |->
              writeUShort(segments[i][2]) \o writeUShort(segments[i][1])
              \o IntValue_write(valueSize, segments[i][3])])
        \o writeUShort(65535) \o writeUShort(65535) \o Zeros(valueSize)

\* Called with a non-empty list only: values[0] of an empty list raises.
buildFormat2(values, valueSize) ==
    LET segments == Format2Segments(values, 2, values[1][1], values[1][1], values[1][2])
        numUnits == Len(segments) + 1
        unitSize == valueSize + 4
    IN  <<[dataSize |-> 2 + BIN_SEARCH_HEADER_SIZE + numUnits * unitSize,
           lookupFormat |-> 2,
           data |-> writeFormat2(segments, valueSize)]>>

writeFormat6(values, valueSize) ==
    LET numUnits == Len(values)
        unitSize == valueSize + 2
    IN  writeUShort(6)
        \o writeBinSearchHeader(numUnits, unitSize)
        \o Flatten([i \in 1..Len(values) |->
              writeUShort(values[i][1]) \o IntValue_write(valueSize, values[i][2])])
        \o writeUShort(65535) \o Zeros(valueSize)

\* buildFormat6 that does not count the terminating unit.
buildFormat6_no_terminator(values, valueSize) ==
    LET numUnits == Len(values)
        unitSize == valueSize + 2
    IN  <<[dataSize |-> 2 + BIN_SEARCH_HEADER_SIZE + numUnits * unitSize,
           lookupFormat |-> 6,
           data |-> writeFormat6(values, valueSize)]>>

buildFormat6(values, valueSize) ==
    LET numUnits == Len(values)
        unitSize == valueSize + 2
    IN  <<[dataSize |-> 2 + BIN_SEARCH_HEADER_SIZE + (numUnits + 1) * unitSize,
           lookupFormat |-> 6,
           data |-> writeFormat6(values, valueSize)]>>

writeFormat8(values, valueSize) ==
    writeUShort(8) \o writeUShort(values[1][1]) \o writeUShort(Len(values))
    \o Flatten([i \in 1..Len(values) |-> IntValue_write(valueSize, values[i][2])])

buildFormat8(values, valueSize) ==
    LET minGlyphID == values[1][1]
        maxGlyphID == values[Len(values)][1]
    IN  IF Len(values) # maxGlyphID - minGlyphID + 1 THEN <<>>
        ELSE <<[dataSize |-> 6 + Len(values) * valueSize, lookupFormat |-> 8,
                data |-> writeFormat8(values, valueSize)]>>

\* Python's order of the (dataSize, lookupFormat, writeMethod) tuples.
FormatLess(a, b) ==
    a.dataSize < b.dataSize
    \/ (a.dataSize = b.dataSize /\ a.lookupFormat < b.lookupFormat)

RECURSIVE InsertFormat(_, _)
InsertFormat(c, s) ==
    IF s = <<>> THEN <<c>>
    ELSE IF FormatLess(c, Head(s)) THEN <<c>> \o s
    ELSE <<Head(s)>> \o InsertFormat(c, Tail(s))

RECURSIVE sortedFormats(_)
sortedFormats(s) ==
    IF s = <<>> THEN <<>> ELSE InsertFormat(Head(s), sortedFormats(Tail(s)))

NoOutcome == [status |-> "none", lookupFormat |-> -1, dataSize |-> 0, data |-> <<>>]

\* AATLookup.write: the outcome of the call and the bytes added to the writer.
AATLookup_write(order, items, valueSize) ==
    LET values == LookupValues(order, items)
    IN  IF values = <<>>
        THEN [NoOutcome EXCEPT !.status = "IndexError"]
        ELSE LET formats == sortedFormats(
                     buildFormat0(Len(order), values, valueSize)
                     \o buildFormat2(values, valueSize)
                     \o buildFormat6(values, valueSize)
                     \o buildFormat8(values, valueSize))
                 actualSize == Len(formats[1].data)
             IN  [status |-> IF actualSize = formats[1].dataSize
                             THEN "ok" ELSE "AssertionError",
                  lookupFormat |-> formats[1].lookupFormat,
                  dataSize |-> formats[1].dataSize,
                  data |-> formats[1].data]

----------------------------------------------------------------------------
(* AATLookup.read and the five decoders.  data holds the lookup from its    *)
(* format code on, so the start of the table is byte offset 0.  A read      *)
(* past the end of the data raises struct.error.                            *)

EmptyMapping == <<>>

Put(mapping, key, value) ==
    [x \in (DOMAIN mapping) \cup {key} |-> IF x = key THEN value ELSE mapping[x]]

\* for k in range(first, last + 1): mapping[font.getGlyphName(k)] = value
RECURSIVE PutRange(_, _, _, _, _)
PutRange(mapping, order, first, last, value) ==
    IF first > last THEN mapping
    ELSE PutRange(Put(mapping, getGlyphName(order, first), value),
                  order, first + 1, last, value)

Decoded(format, mapping) ==
    [status |-> "ok", reader |-> format, hasMapping |-> TRUE, mapping |-> mapping]

Failed(format, why) ==
    [status |-> why, reader |-> format, hasMapping |-> FALSE, mapping |-> EmptyMapping]

NotRead == Failed(-1, "none")

\* converter.readArray of count values from byte offset pos on, into the
\* glyphs first, first + 1, ...
RECURSIVE ReadValueArray(_, _, _, _, _, _, _)
ReadValueArray(order, data, valueSize, pos, first, count, mapping) ==
    IF count <= 0 THEN mapping
    ELSE ReadValueArray(order, data, valueSize, pos + valueSize, first + 1, count - 1,
             Put(mapping, getGlyphName(order, first),
                 IntValue_read(valueSize, data, pos)))

readFormat0(order, data, valueSize) ==
    LET numGlyphs == Len(order)
    IN  IF ~InData(data, 2, numGlyphs * valueSize) THEN Failed(0, "struct.error")
        ELSE Decoded(0, ReadValueArray(order, data, valueSize, 2, 0, numGlyphs,
                                       EmptyMapping))

RECURSIVE readFormat2Units(_, _, _, _, _, _, _)
readFormat2Units(order, data, valueSize, unitSize, numUnits, i, mapping) ==
    IF i >= numUnits THEN Decoded(2, mapping)
    ELSE LET p == i * unitSize + 12
         IN  IF ~InData(data, p, 4 + valueSize) THEN Failed(2, "struct.error")
             ELSE LET last == FromBE(data, p, 2)
                      first == FromBE(data, p + 2, 2)
                      value == IntValue_read(valueSize, data, p + 4)
                  IN  readFormat2Units(order, data, valueSize, unitSize, numUnits, i + 1,
                          IF last # 65535
                          THEN PutRange(mapping, order, first, last, value)
                          ELSE mapping)

readFormat2(order, data, valueSize) ==
    IF ~InData(data, 2, 4) THEN Failed(2, "struct.error")
    ELSE LET unitSize == FromBE(data, 2, 2)
             numUnits == FromBE(data, 4, 2)
         IN  IF unitSize < 4 + valueSize THEN Failed(2, "AssertionError")
             ELSE readFormat2Units(order, data, valueSize, unitSize, numUnits, 0,
                                   EmptyMapping)

RECURSIVE readFormat4Units(_, _, _, _, _, _, _)
readFormat4Units(order, data, valueSize, unitSize, numUnits, i, mapping) ==
    IF i >= numUnits THEN Decoded(4, mapping)
    ELSE LET p == i * unitSize + 12
         IN  IF ~InData(data, p, 6) THEN Failed(4, "struct.error")
             ELSE LET last == FromBE(data, p, 2)
                      first == FromBE(data, p + 2, 2)
                      offset == FromBE(data, p + 4, 2)
                      count == last - first + 1
                  IN  IF last = 65535
                      THEN readFormat4Units(order, data, valueSize, unitSize, numUnits,
                                            i + 1, mapping)
                      ELSE IF count > 0 /\ ~InData(data, offset, count * valueSize)
                      THEN Failed(4, "struct.error")
                      ELSE readFormat4Units(order, data, valueSize, unitSize, numUnits,
                               i + 1,
                               ReadValueArray(order, data, valueSize, offset, first,
                                              count, mapping))

readFormat4(order, data, valueSize) ==
    IF ~InData(data, 2, 2) THEN Failed(4, "struct.error")
    ELSE LET unitSize == FromBE(data, 2, 2)
         IN  IF unitSize < 6 THEN Failed(4, "AssertionError")
             ELSE IF ~InData(data, 4, 2) THEN Failed(4, "struct.error")
             ELSE readFormat4Units(order, data, valueSize, unitSize,
                                   FromBE(data, 4, 2), 0, EmptyMapping)

RECURSIVE readFormat6Units(_, _, _, _, _, _, _)
readFormat6Units(order, data, valueSize, unitSize, numUnits, i, mapping) ==
    IF i >= numUnits THEN Decoded(6, mapping)
    ELSE LET p == i * unitSize + 12
         IN  IF ~InData(data, p, 2 + valueSize) THEN Failed(6, "struct.error")
             ELSE LET glyphID == FromBE(data, p, 2)
                      value == IntValue_read(valueSize, data, p + 2)
                  IN  readFormat6Units(order, data, valueSize, unitSize, numUnits, i + 1,
                          IF glyphID # 65535
                          THEN Put(mapping, getGlyphName(order, glyphID), value)
                          ELSE mapping)

readFormat6(order, data, valueSize) ==
    IF ~InData(data, 2, 2) THEN Failed(6, "struct.error")
    ELSE LET unitSize == FromBE(data, 2, 2)
         IN  IF unitSize < 2 + valueSize THEN Failed(6, "AssertionError")
             ELSE IF ~InData(data, 4, 2) THEN Failed(6, "struct.error")
             ELSE readFormat6Units(order, data, valueSize, unitSize,
                                   FromBE(data, 4, 2), 0, EmptyMapping)

readFormat8(order, data, valueSize) ==
    IF ~InData(data, 2, 4) THEN Failed(8, "struct.error")
    ELSE LET first == FromBE(data, 2, 2)
             count == FromBE(data, 4, 2)
         IN  IF ~InData(data, 6, count * valueSize) THEN Failed(8, "struct.error")
             ELSE Decoded(8, ReadValueArray(order, data, valueSize, 6, first, count,
                                            EmptyMapping))

\* The dispatch with an unknown format code skipped as an empty mapping.
AATLookup_read_skip(order, data, valueSize) ==
    IF ~InData(data, 0, 2) THEN Failed(-1, "struct.error")
    ELSE LET format == FromBE(data, 0, 2)
         IN  CASE format = 0 -> readFormat0(order, data, valueSize)
               [] format = 2 -> readFormat2(order, data, valueSize)
               [] format = 4 -> readFormat4(order, data, valueSize)
               [] format = 6 -> readFormat6(order, data, valueSize)
               [] format = 8 -> readFormat8(order, data, valueSize)
               [] OTHER -> Decoded(-1, EmptyMapping)

\* AATLookup.read: the dispatch on the leading format code.
AATLookup_read(order, data, valueSize) ==
    IF ~InData(data, 0, 2) THEN Failed(-1, "struct.error")
    ELSE LET format == FromBE(data, 0, 2)
         IN  CASE format = 0 -> readFormat0(order, data, valueSize)
               [] format = 2 -> readFormat2(order, data, valueSize)
               [] format = 4 -> readFormat4(order, data, valueSize)
               [] format = 6 -> readFormat6(order, data, valueSize)
               [] format = 8 -> readFormat8(order, data, valueSize)
               [] OTHER -> Failed(-1, "unsupported lookup format")

----------------------------------------------------------------------------
(* The inputs of AATLookup.write.                                           *)

\* value.items(): the entries of the dict, in any order of enumeration.
DictItems(value) ==
    {[i \in 1..Len(p) |-> <<p[i], value[p[i]]>>] : p \in Perms(DOMAIN value)}

GlyphNames(order) == {order[i] : i \in 1..Len(order)}

\* The values a mapping of a small font assigns to its glyphs.
LookupValueSet == {0, 1}

\* The mapping of the glyph IDs 10, 11, 12, 13 to the value 5.
ConcreteMapping(order) == [g \in {order[i] : i \in 11..14} |-> 5]

----------------------------------------------------------------------------
(* AAT state tables.  A transition is a record of the fields of an          *)
(* AATAction; ContextualMorphAction compiles to 8 bytes and                 *)
(* RearrangementMorphAction to 4.                                           *)

NoLookup == 65535

Transition(newState, setMark, reservedFlags, verb, markIndex, currentIndex) ==
    [NewState |-> newState, SetMark |-> setMark, ReservedFlags |-> reservedFlags,
     Verb |-> verb, MarkIndex |-> markIndex, CurrentIndex |-> currentIndex]

\* ContextualMorphAction.compile / RearrangementMorphAction.compile: the mark
\* flag is bit 0x8000, the reserved flags are or-ed in as they are.
Action_compile(actionClass, t) ==
    LET flags == BitOr(BitOr(t.ReservedFlags, IF t.SetMark THEN 32768 ELSE 0),
                       IF actionClass = "Contextual" THEN 0 ELSE t.Verb)
    IN  IF actionClass = "Contextual"
        THEN writeUShort(t.NewState) \o writeUShort(flags)
             \o writeUShort(t.MarkIndex) \o writeUShort(t.CurrentIndex)
        ELSE writeUShort(t.NewState) \o writeUShort(flags)

\* fontTools.misc.textTools.pad
pad(data, size) == data \o Zeros((size - (Len(data) % size)) % size)

\* OTTableWriter.getAllData of a writer that holds only long offsets to the
\* sub-writers subs: one offset per sub-writer, then the data of the
\* sub-writers in order, byte-identical data stored once.
RECURSIVE InternTables(_, _)
InternTables(subs, done) ==
    IF subs = <<>> THEN done
    ELSE InternTables(Tail(subs),
             IF \E i \in 1..Len(done) : done[i] = Head(subs)
             THEN done ELSE Append(done, Head(subs)))

RECURSIVE TablePos(_, _, _)
TablePos(tables, sub, pos) ==
    IF Head(tables) = sub THEN pos
    ELSE TablePos(Tail(tables), sub, pos + Len(Head(tables)))

OffsetsAndTables(subs) ==
    LET tables == InternTables(subs, <<>>)
    IN  Flatten([i \in 1..Len(subs) |->
            writeULong(TablePos(tables, subs[i], 4 * Len(subs)))])
        \o Flatten(tables)

----------------------------------------------------------------------------
(* STXHeader.write.                                                         *)

\* The lookup that never finds an entry: every cell gets an entry of its own.
entryIDs_get_never(entries, entryData) == -1

\* entryIDs.get(entryData): the index of the entry, -1 for None.
entryIDs_get(entries, entryData) ==
    IF \E i \in 1..Len(entries) : entries[i] = entryData
    THEN (CHOOSE i \in 1..Len(entries) : entries[i] = entryData) - 1
    ELSE -1

\* The loop over the cells of the state array, in state-major order.
RECURSIVE StxCompileCells(_, _, _, _)
StxCompileCells(actionClass, cells, entries, stateArray) ==
    IF cells = <<>> THEN [entries |-> entries, stateArray |-> stateArray]
    ELSE LET entryData == Action_compile(actionClass, Head(cells))
             entryIndex == entryIDs_get(entries, entryData)
         IN  IF entryIndex = -1
             THEN StxCompileCells(actionClass, Tail(cells),
                      Append(entries, entryData), Append(stateArray, Len(entries)))
             ELSE StxCompileCells(actionClass, Tail(cells),
                      entries, Append(stateArray, entryIndex))

SetMax(S) == CHOOSE x \in S : \A y \in S : y <= x

\* STXHeader._countPerGlyphLookups
countPerGlyphLookups(actionClass, table) ==
    IF actionClass # "Contextual" THEN 0
    ELSE LET used ==
                 UNION {{table.States[s][c].MarkIndex + 1 : c \in
                            {c \in DOMAIN table.States[s] :
                                 table.States[s][c].MarkIndex # NoLookup}}
                        \cup
                        {table.States[s][c].CurrentIndex + 1 : c \in
                            {c \in DOMAIN table.States[s] :
                                 table.States[s][c].CurrentIndex # NoLookup}}
                        : s \in 1..Len(table.States)}
         IN  SetMax(used \cup {0})

\* self.perGlyphLookup.write of one lookup: glyph -> glyph, written by the
\* GlyphID converter as glyph IDs.
PerGlyphLookup_write(order, lookup) ==
    LET items == CHOOSE it \in DictItems(lookup) : TRUE
    IN  AATLookup_write(order,
            [i \in 1..Len(items) |-> <<items[i][1], getGlyphID(order, items[i][2])>>], 2)

\* STXHeader._compilePerGlyphLookups without its assertion on the number of
\* lookups.
compilePerGlyphLookups_unchecked(order, actionClass, table) ==
    IF actionClass # "Contextual" THEN [status |-> "ok", data |-> <<>>]
    ELSE LET subs == [i \in 1..Len(table.PerGlyphLookups) |->
                         PerGlyphLookup_write(order, table.PerGlyphLookups[i])]
         IN  IF \E i \in 1..Len(subs) : subs[i].status # "ok"
             THEN [status |-> "IndexError", data |-> <<>>]
             ELSE [status |-> "ok",
                   data |-> OffsetsAndTables([i \in 1..Len(subs) |-> subs[i].data])]

\* STXHeader._compilePerGlyphLookups
compilePerGlyphLookups(order, actionClass, table) ==
    IF actionClass # "Contextual" THEN [status |-> "ok", data |-> <<>>]
    ELSE IF Len(table.PerGlyphLookups) # countPerGlyphLookups(actionClass, table)
    THEN [status |-> "AssertionError", data |-> <<>>]
    ELSE LET subs == [i \in 1..Len(table.PerGlyphLookups) |->
                         PerGlyphLookup_write(order, table.PerGlyphLookups[i])]
         IN  IF \E i \in 1..Len(subs) : subs[i].status # "ok"
             THEN [status |-> "IndexError", data |-> <<>>]
             ELSE [status |-> "ok",
                   data |-> OffsetsAndTables([i \in 1..Len(subs) |-> subs[i].data])]

StxNoOutcome ==
    [status |-> "none", written |-> <<>>, glyphClassCount |-> 0,
     glyphClassTableOffset |-> 0, stateArrayOffset |-> 0, entryTableOffset |-> 0,
     perGlyphOffset |-> 0, glyphClassData |-> <<>>, stateArray |-> <<>>,
     entries |-> <<>>, perGlyphData |-> <<>>]

StxFailed(why) == [StxNoOutcome EXCEPT !.status = why]

\* The count taken over from the table as it was read.
STXHeader_glyphClassCount_stored(table) == table.GlyphClassCount

\* glyphClassCount = max(value.GlyphClasses.values()) + 1
STXHeader_glyphClassCount(table) ==
    SetMax({table.GlyphClasses[g] : g \in DOMAIN table.GlyphClasses}) + 1

\* STXHeader.write: the outcome, the locals of the call and the bytes added
\* to the caller's writer.
STXHeader_write(order, actionClass, table) ==
    LET classItems == CHOOSE it \in DictItems(table.GlyphClasses) : TRUE
        glyphClass == AATLookup_write(order, classItems, 2)
    IN  IF glyphClass.status # "ok" THEN StxFailed(glyphClass.status)
        ELSE
        LET glyphClassData == pad(glyphClass.data, 4)
            glyphClassCount == STXHeader_glyphClassCount(table)
            glyphClassTableOffset == IF actionClass = "Contextual" THEN 16 + 4 ELSE 16
        IN  IF \E s \in 1..Len(table.States) : \E c \in 0..(glyphClassCount - 1) :
                   c \notin DOMAIN table.States[s]
            THEN StxFailed("KeyError")
            ELSE
            LET cells == [k \in 1..(Len(table.States) * glyphClassCount) |->
                             table.States[(k - 1) \div glyphClassCount + 1]
                                         [(k - 1) % glyphClassCount]]
                compiled == StxCompileCells(actionClass, cells, <<>>, <<>>)
                stateArrayOffset == glyphClassTableOffset + Len(glyphClassData)
                stateArrayData ==
                    pad(Flatten([k \in 1..Len(compiled.stateArray) |->
                                    writeUShort(compiled.stateArray[k])]), 4)
                entryTableOffset == stateArrayOffset + Len(stateArrayData)
                entryTableData == pad(Flatten(compiled.entries), 4)
                perGlyphOffset == entryTableOffset + Len(entryTableData)
                perGlyph == compilePerGlyphLookups(order, actionClass, table)
                perGlyphData == pad(perGlyph.data, 4)
            IN  IF perGlyph.status # "ok" THEN StxFailed(perGlyph.status)
                ELSE [status |-> "ok",
                      written |->
                          writeULong(glyphClassCount)
                          \o writeULong(glyphClassTableOffset)
                          \o writeULong(stateArrayOffset)
                          \o writeULong(entryTableOffset)
                          \o (IF actionClass = "Contextual"
                              THEN writeULong(perGlyphOffset) ELSE <<>>)
                          \o glyphClassData \o stateArrayData
                          \o entryTableData \o perGlyphData,
                      glyphClassCount |-> glyphClassCount,
                      glyphClassTableOffset |-> glyphClassTableOffset,
                      stateArrayOffset |-> stateArrayOffset,
                      entryTableOffset |-> entryTableOffset,
                      perGlyphOffset |-> perGlyphOffset,
                      glyphClassData |-> glyphClassData,
                      stateArray |-> compiled.stateArray,
                      entries |-> compiled.entries,
                      perGlyphData |-> perGlyphData]

----------------------------------------------------------------------------
(* STXHeader.read, with the reader at the start of data.                    *)

StxReadFailed(why) ==
    [status |-> why, GlyphClassCount |-> 0, GlyphClasses |-> EmptyMapping,
     States |-> <<>>, PerGlyphLookups |-> <<>>]

StxNotRead == StxReadFailed("none")

Action_staticSize(actionClass) == IF actionClass = "Contextual" THEN 8 ELSE 4

\* ContextualMorphAction.decompile / RearrangementMorphAction.decompile of
\* the entry at byte offset pos: the mark flag is bit 0x8000, the reserved
\* flags are the flag bits left under the mask of the class.
Action_decompile(actionClass, data, pos) ==
    LET flags == FromBE(data, pos + 2, 2)
    IN  IF actionClass = "Contextual"
        THEN Transition(FromBE(data, pos, 2), flags >= 32768, BitAnd(flags, 16383), 0,
                        FromBE(data, pos + 4, 2), FromBE(data, pos + 6, 2))
        ELSE Transition(FromBE(data, pos, 2), flags >= 32768, BitAnd(flags, 8176),
                        BitAnd(flags, 15), 0, 0)

\* STXHeader._readTransition with the entry table at byte offset entryTable.
readTransition(actionClass, data, entryTable, entryIndex) ==
    Action_decompile(actionClass, data,
                     entryTable + entryIndex * Action_staticSize(actionClass))

\* STXHeader._readPerGlyphLookups with the reader at byte offset pos: the
\* lookups, whose values the GlyphID converter reads as glyph names.
readPerGlyphLookups(order, actionClass, states, data, pos) ==
    [i \in 1..countPerGlyphLookups(actionClass, [States |-> states]) |->
        LET start == pos + FromBE(data, pos + 4 * (i - 1), 4)
            lookup == AATLookup_read(order, SubSeq(data, start + 1, Len(data)), 2)
        IN  [status |-> lookup.status,
             mapping |-> [g \in DOMAIN lookup.mapping |->
                             getGlyphName(order, lookup.mapping[g])]]]

STXHeader_read(order, actionClass, data) ==
    LET headerSize == IF actionClass = "Contextual" THEN 20 ELSE 16
    IN  IF ~InData(data, 0, headerSize) THEN StxReadFailed("struct.error")
        ELSE
        LET GlyphClassCount == FromBE(data, 0, 4)
            classTable == FromBE(data, 4, 4)
            stateArray == FromBE(data, 8, 4)
            entryTable == FromBE(data, 12, 4)
            GlyphClasses ==
                AATLookup_read(order, SubSeq(data, classTable + 1, Len(data)), 2)
        IN  IF GlyphClasses.status # "ok" THEN StxReadFailed(GlyphClasses.status)
            ELSE IF GlyphClassCount = 0 THEN StxReadFailed("ZeroDivisionError")
            ELSE
            LET numStates == Max2(0, (entryTable - stateArray) \div (GlyphClassCount * 2))
                entryIndex(s, c) ==
                    FromBE(data, stateArray + 2 * ((s - 1) * GlyphClassCount + c), 2)
                staticSize == Action_staticSize(actionClass)
            IN  IF \/ ~InData(data, stateArray, 2 * numStates * GlyphClassCount)
                   \/ \E s \in 1..numStates : \E c \in 0..(GlyphClassCount - 1) :
                          ~InData(data, entryTable + entryIndex(s, c) * staticSize,
                                  staticSize)
                THEN StxReadFailed("struct.error")
                ELSE
                LET States ==
                        [s \in 1..numStates |->
                            [c \in 0..(GlyphClassCount - 1) |->
                                readTransition(actionClass, data, entryTable,
                                               entryIndex(s, c))]]
                    PerGlyphLookups ==
                        IF actionClass = "Contextual"
                        THEN readPerGlyphLookups(order, actionClass, States, data,
                                                 FromBE(data, 16, 4))
                        ELSE <<>>
                IN  IF \E i \in 1..Len(PerGlyphLookups) : PerGlyphLookups[i].status # "ok"
                    THEN StxReadFailed(PerGlyphLookups[
                             CHOOSE i \in 1..Len(PerGlyphLookups) :
                                 PerGlyphLookups[i].status # "ok"].status)
                    ELSE [status |-> "ok",
                          GlyphClassCount |-> GlyphClassCount,
                          GlyphClasses |-> GlyphClasses.mapping,
                          States |-> States,
                          PerGlyphLookups |->
                              [i \in 1..Len(PerGlyphLookups) |-> PerGlyphLookups[i].mapping]]

----------------------------------------------------------------------------
(* The inputs of STXHeader.write.                                           *)

\* The transitions a cell of a state table is drawn from.  The second and
\* the third differ as objects and compile to the same bytes.
ContextualKinds ==
    {Transition(0, FALSE, 0, 0, NoLookup, 0),
     Transition(1, TRUE, 0, 0, 1, NoLookup),
     Transition(1, FALSE, 32768, 0, 1, NoLookup)}

RearrangementKinds ==
    {Transition(0, FALSE, 0, 1, 0, 0),
     Transition(1, TRUE, 0, 0, 0, 0),
     Transition(1, FALSE, 32768, 0, 0, 0)}

ActionKinds(actionClass) ==
    IF actionClass = "Contextual" THEN ContextualKinds ELSE RearrangementKinds

\* A per-glyph lookup: the first glyph of the font is replaced by the last.
SomeLookup(order) == [g \in {order[1]} |-> order[Len(order)]]

SeqsUpTo(S, n) == UNION {[1..k -> S] : k \in 0..n}

\* The class maps of a font: every glyph classified, or none.
StxGlyphClasses(order) ==
    [GlyphNames(order) -> 0..MaxClass] \cup {EmptyMapping}

\* The state arrays: up to MaxStates rows of one transition per class.
StxStates(actionClass) ==
    SeqsUpTo([0..MaxClass -> ActionKinds(actionClass)], MaxStates)

\* The numbers of per-glyph lookups a table carries.
StxLookupCounts(actionClass) ==
    0..(IF actionClass = "Contextual" THEN MaxLookups ELSE 0)

----------------------------------------------------------------------------
(* The element converters of an array: two converters with a staticSize     *)
(* and VarDataValue, which has none.                                        *)

\* OTTableReader.readUInt8 / readInt8 / readShort at byte offset pos.
readUInt8(data, pos) == FromBE(data, pos, 1)

readInt8(data, pos) ==
    IF FromBE(data, pos, 1) >= 128 THEN FromBE(data, pos, 1) - 256
    ELSE FromBE(data, pos, 1)

readShort(data, pos) ==
    IF FromBE(data, pos, 2) >= 32768 THEN FromBE(data, pos, 2) - 65536
    ELSE FromBE(data, pos, 2)

ReadOk(value, pos) == [status |-> "ok", value |-> value, pos |-> pos]

ReadFailed(why, pos) == [status |-> why, value |-> <<>>, pos |-> pos]

\* VarDataValue.read: min(regionCount, shortCount) shorts, the other values
\* of the row as signed bytes, and the surplus bytes of the row skipped.
VarDataValue_read(tableDict, data, pos) ==
    IF ~({"VarRegionCount", "NumShorts"} \subseteq DOMAIN tableDict)
    THEN ReadFailed("KeyError", pos)
    ELSE LET regionCount == tableDict["VarRegionCount"]
             shortCount == tableDict["NumShorts"]
             nShorts == Min2(regionCount, shortCount)
             size == 2 * nShorts + (regionCount - nShorts)
                        + Max2(shortCount - regionCount, 0)
         IN  IF ~InData(data, pos, size) THEN ReadFailed("struct.error", pos)
             ELSE ReadOk([i \in 1..regionCount |->
                             IF i <= nShorts
                             THEN readShort(data, pos + 2 * (i - 1))
                             ELSE readInt8(data, pos + 2 * nShorts + (i - 1 - nShorts))],
                         pos + size)

\* conv.read(reader, font, tableDict) with the reader at byte offset pos:
\* the value read and the position the reader is left at.
Conv_read(conv, tableDict, data, pos) ==
    CASE conv = "UInt8" ->
            IF InData(data, pos, 1) THEN ReadOk(readUInt8(data, pos), pos + 1)
            ELSE ReadFailed("struct.error", pos)
      [] conv = "Short" ->
            IF InData(data, pos, 2) THEN ReadOk(readShort(data, pos), pos + 2)
            ELSE ReadFailed("struct.error", pos)
      [] conv = "VarDataValue" -> VarDataValue_read(tableDict, data, pos)

\* BaseConverter.getRecordSize: <<staticSize>>, or <<>> for NotImplemented.
NotImplemented == <<>>

getRecordSize(conv) ==
    CASE conv = "UInt8" -> <<1>>
      [] conv = "Short" -> <<2>>
      [] OTHER -> NotImplemented

----------------------------------------------------------------------------
(* BaseConverter.readArray and _LazyList.                                   *)

\* The threshold of readArray: arrays of more elements may be lazy.
LazyThreshold == 8

MissingItem(i) == [missing |-> TRUE, index |-> i, value |-> <<>>]

Item(value) == [missing |-> FALSE, index |-> 0, value |-> value]

\* A list as readArray returns it: a plain list (kind "list") or a
\* _LazyList (kind "lazy") with its pos, its recordSize and, in readerPos,
\* the position of its own copy of the reader.
NoList == [kind |-> "none", data |-> <<>>, pos |-> 0, recordSize |-> 0,
           readerPos |-> 0]

PlainList(l) == [kind |-> "list", data |-> l, pos |-> 0, recordSize |-> 0,
                 readerPos |-> 0]

\* The loop of the eager branch: n more elements are read one after another.
RECURSIVE readArray_eager(_, _, _, _, _, _)
readArray_eager(conv, tableDict, data, pos, n, l) ==
    IF n = 0 THEN [status |-> "ok", list |-> PlainList(l), readerPos |-> pos]
    ELSE LET r == Conv_read(conv, tableDict, data, pos)
         IN  IF r.status # "ok"
             THEN [status |-> r.status, list |-> NoList, readerPos |-> r.pos]
             ELSE readArray_eager(conv, tableDict, data, r.pos, n - 1,
                                  Append(l, Item(r.value)))

\* readArray whose lazy branch leaves out reader.advance(count * recordSize).
readArray_no_advance(fontLazy, conv, tableDict, data, pos, count) ==
    LET lazy == fontLazy /\ count > LazyThreshold
                    /\ getRecordSize(conv) # NotImplemented
    IN  IF ~lazy THEN readArray_eager(conv, tableDict, data, pos, count, <<>>)
        ELSE [status |-> "ok",
              list |-> [kind |-> "lazy",
                        data |-> [i \in 1..count |-> MissingItem(i - 1)],
                        pos |-> pos, recordSize |-> getRecordSize(conv)[1],
                        readerPos |-> pos],
              readerPos |-> pos]

\* readArray with the reader at byte offset pos: the list returned, and in
\* readerPos the position the reader is left at.
readArray(fontLazy, conv, tableDict, data, pos, count) ==
    LET lazy == fontLazy /\ count > LazyThreshold
                    /\ getRecordSize(conv) # NotImplemented
    IN  IF ~lazy THEN readArray_eager(conv, tableDict, data, pos, count, <<>>)
        ELSE LET recordSize == getRecordSize(conv)[1]
             IN  [status |-> "ok",
                  list |-> [kind |-> "lazy",
                            data |-> [i \in 1..count |-> MissingItem(i - 1)],
                            pos |-> pos, recordSize |-> recordSize,
                            readerPos |-> pos],
                  readerPos |-> pos + count * recordSize]

\* The position _LazyList.__getitem__ seeks to for a missing item.
LazySeekPos_no_stride(list, item) == list.pos + item.index

LazySeekPos(list, item) == list.pos + item.index * list.recordSize

\* __getitem__ that reads the record whether or not the slot holds a value.
LazyList_getitem_always_reads(list, reads, conv, data, k) ==
    LET r == Conv_read(conv, EmptyMapping, data,
                       list.pos + k * list.recordSize)
    IN  [status |-> r.status, value |-> r.value,
         list |-> [list EXCEPT !.data[k + 1] = Item(r.value), !.readerPos = r.pos],
         reads |-> [reads EXCEPT ![k + 1] = @ + 1]]

\* _LazyList.__getitem__(k) for an integer k: the value returned, the list
\* afterwards and the reads made so far.  A missing item is read with an
\* empty tableDict and stored.
LazyList_getitem(list, reads, conv, data, k) ==
    LET item == list.data[k + 1]
    IN  IF ~item.missing
        THEN [status |-> "ok", value |-> item.value, list |-> list, reads |-> reads]
        ELSE LET r == Conv_read(conv, EmptyMapping, data, LazySeekPos(list, item))
                 read1 == [reads EXCEPT ![k + 1] = @ + 1]
             IN  IF r.status # "ok"
                 THEN [status |-> r.status, value |-> <<>>,
                       list |-> [list EXCEPT !.readerPos = r.pos],
                       reads |-> read1]
                 ELSE [status |-> "ok", value |-> r.value,
                       list |-> [list EXCEPT !.data[k + 1] = Item(r.value),
                                             !.readerPos = r.pos],
                       reads |-> read1]

\* slice(i, j).indices(len) for i, j >= 0: the first index and the stop.
SliceIndices(i, j, len) == <<Min2(i, len), Min2(j, len)>>

\* [self[i] for i in indices] from index i up to stop, appended to values.
RECURSIVE LazyList_items(_, _, _, _, _, _, _)
LazyList_items(list, reads, conv, data, i, stop, values) ==
    IF i >= stop
    THEN [status |-> "ok", value |-> values, list |-> list, reads |-> reads]
    ELSE LET g == LazyList_getitem(list, reads, conv, data, i)
         IN  IF g.status # "ok" THEN g
             ELSE LazyList_items(g.list, g.reads, conv, data, i + 1, stop,
                                 Append(values, g.value))

\* _LazyList.__getitem__(slice(i, j)).
LazyList_getslice(list, reads, conv, data, i, j) ==
    LET ind == SliceIndices(i, j, Len(list.data))
    IN  LazyList_items(list, reads, conv, data, ind[1], ind[2], <<>>)

\* What __getitem__ returned: nothing yet.
NoAccess == [kind |-> "none", status |-> "none", n |-> 0, i |-> 0, j |-> 0,
             value |-> <<>>]

----------------------------------------------------------------------------
(* The inputs of readArray.                                                 *)

\* The bytes under the reader: no two neighbouring records are alike, and
\* bytes above 127 occur.
ArrayBytes(n) == [p \in 1..n |-> (200 + 37 * (p - 1)) % 256]

\* The tableDict of a VarData table of one region.
VarDataDicts ==
    {[k \in {"VarRegionCount", "NumShorts"} |->
        IF k = "VarRegionCount" THEN 1 ELSE s] : s \in 0..2}

ArrayConverters == {"UInt8", "Short", "VarDataValue"}

ArrayCounts == {0, LazyThreshold, MaxCount}

----------------------------------------------------------------------------
(* The offset converters Table, LTable, SubTable, ExtSubTable and           *)
(* FeatureParams.  A writer is its list of items and its attributes; an     *)
(* item is a byte string or a sub-writer.                                   *)

None == [kind |-> "None", bytes |-> <<>>]

\* repeatIndex=None.
NoRepeatIndex == <<>>

DataItem(bytes) == [kind |-> "data", bytes |-> bytes, attrs |-> <<>>, items |-> <<>>]

SubWriterItem(w) == [kind |-> "writer", bytes |-> <<>>, attrs |-> w.attrs, items |-> w.items]

NoWriter == [attrs |-> <<>>, items |-> <<>>]

\* OTTableWriter.writeUShort / writeULong: one item is appended.
Writer_write(writer, bytes) == [writer EXCEPT !.items = Append(@, DataItem(bytes))]

\* OTTableWriter.getSubWriter: a fresh writer whose parent is the writer.
Writer_getSubWriter(writer) ==
    [attrs |-> [a \in {"longOffset"} |-> FALSE], items |-> <<>>]

\* setattr(writer, name, value).
Writer_setattr(writer, name, value) == [writer EXCEPT !.attrs = Put(@, name, value)]

\* BaseTable.compile: the table's bytes go to the writer.
Table_compile(table, writer) == Writer_write(writer, table.bytes)

\* The class attribute longOffset of the converters.
Table_longOffset(conv) == conv \in {"LTable", "ExtSubTable"}

\* Table.writeNullOffset.
writeNullOffset_short(conv, writer) == Writer_write(writer, writeUShort(0))

writeNullOffset(conv, writer) ==
    IF Table_longOffset(conv) THEN Writer_write(writer, writeULong(0))
    ELSE Writer_write(writer, writeUShort(0))

\* Table.write.
Table_write(conv, writer, value, repeatIndex) ==
    IF value = None THEN writeNullOffset(conv, writer)
    ELSE LET sub0 == Writer_getSubWriter(writer)
             sub1 == Writer_setattr(sub0, "longOffset", Table_longOffset(conv))
             sub2 == Writer_setattr(sub1, "name", conv)
             sub3 == IF repeatIndex # NoRepeatIndex
                     THEN Writer_setattr(sub2, "repeatIndex", repeatIndex[1])
                     ELSE sub2
         IN  [writer EXCEPT
                !.items = Append(@, SubWriterItem(Table_compile(value, sub3)))]

\* ExtSubTable.write: the Extension attribute is set, then Table.write.
ExtSubTable_write(conv, writer, value, repeatIndex) ==
    Table_write(conv, Writer_setattr(writer, "Extension", TRUE), value, repeatIndex)

\* conv.write of the five converters.
Offset_write(conv, writer, value, repeatIndex) ==
    IF conv = "ExtSubTable" THEN ExtSubTable_write(conv, writer, value, repeatIndex)
    ELSE Table_write(conv, writer, value, repeatIndex)

\* Table.readOffset / LTable.readOffset at byte offset pos.
readOffset(conv, data, pos) ==
    IF Table_longOffset(conv)
    THEN (IF InData(data, pos, 4) THEN ReadOk(FromBE(data, pos, 4), pos + 4)
          ELSE ReadFailed("struct.error", pos))
    ELSE (IF InData(data, pos, 2) THEN ReadOk(FromBE(data, pos, 2), pos + 2)
          ELSE ReadFailed("struct.error", pos))

\* The outcome of read: the value, the position the reader is left at, the
\* sub-readers created and the byte offsets read.
TableRead(status, value, pos, subReaders, bytesRead) ==
    [status |-> status, value |-> value, pos |-> pos,
     subReaders |-> subReaders, bytesRead |-> bytesRead]

TableNotRead == TableRead("none", None, 0, <<>>, {})

\* BaseTable.decompile from a reader at byte offset pos: the bytes of the
\* table, two of them.
Table_decompile(data, pos) ==
    IF InData(data, pos, 2)
    THEN ReadOk([kind |-> "table", bytes |-> SubSeq(data, pos + 1, pos + 2)], pos + 2)
    ELSE ReadFailed("struct.error", pos)

\* Table.read with the reader at byte offset pos; the reader's own offset
\* is 0, so the sub-reader starts at the offset read.
Table_read(conv, fontLazy, data, pos) ==
    LET o == readOffset(conv, data, pos)
        offsetBytes == pos..(o.pos - 1)
    IN  IF o.status # "ok" THEN TableRead(o.status, None, o.pos, <<>>, {})
        ELSE IF o.value = 0 THEN TableRead("ok", None, o.pos, <<>>, offsetBytes)
        ELSE IF fontLazy
        THEN TableRead("ok", [kind |-> "lazy table", bytes |-> <<>>], o.pos,
                       <<o.value>>, offsetBytes)
        ELSE LET t == Table_decompile(data, o.value)
             IN  IF t.status # "ok"
                 THEN TableRead(t.status, None, o.pos, <<o.value>>, offsetBytes)
                 ELSE TableRead("ok", t.value, o.pos, <<o.value>>,
                                offsetBytes \cup (o.value..(t.pos - 1)))

----------------------------------------------------------------------------
(* The inputs of the offset converters.                                     *)

OffsetConverters == {"Table", "LTable", "SubTable", "ExtSubTable", "FeatureParams"}

\* A table whose compile writes two bytes.
SomeTable == [kind |-> "table", bytes |-> <<0, 7>>]

\* The writers handed to write: new or with an item written, with or without
\* the Extension attribute.
SomeWriters ==
    {[attrs |-> a, items |-> i] :
        a \in {[n \in {"longOffset"} |-> FALSE],
               [n \in {"longOffset", "Extension"} |-> n = "Extension"]},
        i \in {<<>>, <<DataItem(<<222, 173>>)>>}}

\* repeatIndex: None, or <<i>> for the index i.
RepeatIndexes == {NoRepeatIndex} \cup {<<i>> : i \in 0..MaxRepeatIndex}

\* The bytes handed to read: an offset of 0, an offset whose upper half is
\* 0, an offset whose lower half is 0, a short offset, and too few bytes.
OffsetBytes ==
    {<<0, 0, 0, 0, 1, 2, 3, 4>>, <<0, 0, 0, 6, 1, 2, 3, 4>>,
     <<0, 6, 0, 0, 1, 2, 3, 4>>, <<0, 0>>, <<0, 0, 0, 0, 0, 0, 0, 0>>}

----------------------------------------------------------------------------
(* StructWithLength.write.  The table class of the struct is its schema:    *)
(* whether it is a FormatSwitchingBaseTable, for every converter before     *)
(* StructLength the number of items its write emits (1 for a scalar, the    *)
(* number of elements for a repeated field), the staticSize of the          *)
(* StructLength converter, and the items the converters after it emit.      *)

\* OTTableWriter.getDataLength: an offset counts for a sub-writer.
RECURSIVE ItemsLength(_)
ItemsLength(items) ==
    IF items = <<>> THEN 0
    ELSE (IF Head(items).kind = "data" THEN Len(Head(items).bytes)
          ELSE IF Head(items).attrs["longOffset"] THEN 4 ELSE 2)
         + ItemsLength(Tail(items))

Writer_getDataLength(writer) == ItemsLength(writer.items)

\* The items a converter before StructLength emits: n UShort values.
FieldItems(n) == [i \in 1..n |-> DataItem(writeUShort(i))]

\* BaseTable.compile / FormatSwitchingBaseTable.compile of the struct: the
\* Format, the fields before StructLength, StructLength, the fields after.
\* value.StructLength is held as its base-256 digits, 0xDEADBEEF being wider
\* than the integers of the model.
Struct_compile(schema, structLength, writer) ==
    [writer EXCEPT !.items =
        @ \o (IF schema.formatSwitching THEN <<DataItem(writeUShort(1))>> ELSE <<>>)
          \o Flatten([c \in 1..Len(schema.before) |-> FieldItems(schema.before[c])])
          \o <<DataItem(Zeros(schema.staticSize - Len(structLength)) \o structLength)>>
          \o schema.after]

\* {1:0xDE, 2:0xDEAD, 4:0xDEADBEEF}[conv.staticSize]
deadbeef(staticSize) ==
    CASE staticSize = 1 -> <<222>>
      [] staticSize = 2 -> <<222, 173>>
      [] staticSize = 4 -> <<222, 173, 190, 239>>

\* b"\xde\xad\xbe\xef"[:conv.staticSize]
deadbeefBytes(staticSize) == SubSeq(<<222, 173, 190, 239>>, 1, staticSize)

\* length = writer.getDataLength() - before
StructLength_measure_total(before, after) == after

StructLength_measure(before, after) == after - before

SwlOutcome(status, lengthIndex, length, compiled) ==
    [status |-> status, lengthIndex |-> lengthIndex, length |-> length,
     compiled |-> compiled]

SwlNoOutcome == SwlOutcome("none", 0, 0, NoWriter)

\* StructWithLength.write: the outcome (with the writer as value.compile left
\* it), the writer afterwards and value.StructLength afterwards.
StructWithLength_write(schema, structLength, writer) ==
    LET convIndex == Len(schema.before)
        lengthIndex == Len(writer.items) + convIndex
                           + (IF schema.formatSwitching THEN 1 ELSE 0)
    IN  IF schema.staticSize \notin {1, 2, 4}
        THEN [out |-> SwlOutcome("KeyError", lengthIndex, 0, NoWriter),
              writer |-> writer, structLength |-> structLength]
        ELSE LET before == Writer_getDataLength(writer)
                 compiled == Struct_compile(schema, deadbeef(schema.staticSize), writer)
                 length == StructLength_measure(before, Writer_getDataLength(compiled))
                 failed(why) ==
                     [out |-> SwlOutcome(why, lengthIndex, length, compiled),
                      writer |-> compiled,
                      structLength |-> deadbeef(schema.staticSize)]
             IN  IF schema.staticSize < 4 /\ length >= Pow(256, schema.staticSize)
                 THEN failed("struct.error")
                 ELSE IF lengthIndex >= Len(compiled.items) THEN failed("IndexError")
                 ELSE IF compiled.items[lengthIndex + 1]
                             # DataItem(deadbeefBytes(schema.staticSize))
                 THEN failed("AssertionError")
                 ELSE [out |-> SwlOutcome("ok", lengthIndex, length, compiled),
                       writer |-> [compiled EXCEPT !.items[lengthIndex + 1] =
                                      DataItem(IntValue_write(schema.staticSize, length))],
                       structLength |-> deadbeef(schema.staticSize)]

----------------------------------------------------------------------------
(* The inputs of StructWithLength.write.                                    *)

\* What the converters after StructLength emit: nothing; a byte, a long
\* offset and a short offset; more bytes than a UInt8 length can count.
SwlAfter ==
    {<<>>,
     <<DataItem(<<5>>),
       SubWriterItem([attrs |-> [a \in {"longOffset"} |-> TRUE], items |-> <<>>]),
       SubWriterItem([attrs |-> [a \in {"longOffset"} |-> FALSE], items |-> <<>>])>>,
     <<DataItem(Zeros(300))>>}

SwlSchemas ==
    {[formatSwitching |-> f, before |-> b, staticSize |-> s, after |-> a] :
        f \in BOOLEAN, b \in SeqsUpTo(0..MaxItems, MaxBefore),
        s \in 1..4, a \in SwlAfter}

SwlWriters ==
    {[attrs |-> [a \in {"longOffset"} |-> FALSE], items |-> i] :
        i \in {<<>>, <<DataItem(<<1, 2>>)>>}}

----------------------------------------------------------------------------
(* DeltaValue: the deltas of a Device table, packed into 16-bit words.      *)

\* x << n and x >> n of a non-negative x.
ShiftLeft(x, n) == x * Pow(2, n)

ShiftRight(x, n) == x \div Pow(2, n)

\* value & mask, for a mask of nBits ones and a value of either sign: the
\* two's complement of a negative value.
MaskBits(value, nBits) == BitAnd(value % Pow(2, nBits), Pow(2, nBits) - 1)

DeltaWritten(status, data) == [status |-> status, data |-> data]

DeltaNotWritten == DeltaWritten("none", <<>>)

\* The loop of DeltaValue.write over the values left; data is what has
\* been written so far.
RECURSIVE DeltaValue_writeLoop(_, _, _, _, _)
DeltaValue_writeLoop(values, nBits, tmp, shift, data) ==
    IF values = <<>>
    THEN (IF shift # 16 THEN data \o writeUShort(tmp) ELSE data)
    ELSE LET shift1 == shift - nBits
             tmp1 == BitOr(tmp, ShiftLeft(MaskBits(Head(values), nBits), shift1))
         IN  IF shift1 = 0
             THEN DeltaValue_writeLoop(Tail(values), nBits, 0, 16,
                                       data \o writeUShort(tmp1))
             ELSE DeltaValue_writeLoop(Tail(values), nBits, tmp1, shift1, data)

\* DeltaValue.write.
DeltaValue_write(tableDict, value) ==
    LET StartSize == tableDict["StartSize"]
        EndSize == tableDict["EndSize"]
        DeltaFormat == tableDict["DeltaFormat"]
    IN  IF DeltaFormat \notin {1, 2, 3} THEN DeltaWritten("AssertionError", <<>>)
        ELSE LET nItems == EndSize - StartSize + 1
                 nBits == Pow(2, DeltaFormat)
             IN  IF Len(value) # nItems THEN DeltaWritten("AssertionError", <<>>)
                 ELSE DeltaWritten("ok", DeltaValue_writeLoop(value, nBits, 0, 16, <<>>))

\* if value & signMask: value = value - minusOffset
DeltaValue_signed_never(value, nBits) == value

DeltaValue_signed(value, nBits) ==
    IF BitAnd(value, Pow(2, nBits - 1)) # 0 THEN value - Pow(2, nBits) ELSE value

\* The loop of DeltaValue.read for the n items left, with the reader at
\* byte offset pos.
RECURSIVE DeltaValue_readLoop(_, _, _, _, _, _, _)
DeltaValue_readLoop(n, nBits, tmp, shift, data, pos, values) ==
    IF n = 0 THEN ReadOk(values, pos)
    ELSE IF shift = 0 /\ ~InData(data, pos, 2) THEN ReadFailed("struct.error", pos)
    ELSE LET tmp1 == IF shift = 0 THEN FromBE(data, pos, 2) ELSE tmp
             pos1 == IF shift = 0 THEN pos + 2 ELSE pos
             shift1 == (IF shift = 0 THEN 16 ELSE shift) - nBits
             value == BitAnd(ShiftRight(tmp1, shift1), Pow(2, nBits) - 1)
         IN  DeltaValue_readLoop(n - 1, nBits, tmp1, shift1, data, pos1,
                                 Append(values, DeltaValue_signed(value, nBits)))

\* DeltaValue.read without its assertion on DeltaFormat.
DeltaValue_read_unchecked(tableDict, data, pos) ==
    DeltaValue_readLoop(Max2(tableDict["EndSize"] - tableDict["StartSize"] + 1, 0),
                        Pow(2, tableDict["DeltaFormat"]), 0, 0, data, pos, <<>>)

\* DeltaValue.read with the reader at byte offset pos.
DeltaValue_read(tableDict, data, pos) ==
    LET StartSize == tableDict["StartSize"]
        EndSize == tableDict["EndSize"]
        DeltaFormat == tableDict["DeltaFormat"]
    IN  IF DeltaFormat \notin {1, 2, 3} THEN ReadFailed("AssertionError", pos)
        ELSE DeltaValue_readLoop(Max2(EndSize - StartSize + 1, 0),
                                 Pow(2, DeltaFormat), 0, 0, data, pos, <<>>)

----------------------------------------------------------------------------
(* The inputs of DeltaValue.                                                *)

\* The least, the greatest and the two middle values of an nBits-bit delta.
DeltaSamples(nBits) == <<-Pow(2, nBits - 1), -1, 0, Pow(2, nBits - 1) - 1>>

\* The delta lists of n items that cycle through the samples, and every
\* list of samples of up to MaxFreeItems items.
DeltaLists(nBits, n) ==
    {[i \in 1..n |-> DeltaSamples(nBits)[((i + k) % 4) + 1]] : k \in 0..3}
        \cup SeqsUpTo({DeltaSamples(nBits)[k] : k \in 1..4}, MaxFreeItems)

DeviceDicts ==
    {[k \in {"StartSize", "EndSize", "DeltaFormat"} |->
        CASE k = "StartSize" -> s
          [] k = "EndSize" -> s + n - 1
          [] k = "DeltaFormat" -> f] :
        s \in {0, 12}, n \in 0..MaxDeltaItems, f \in 0..MaxDeltaFormat}

----------------------------------------------------------------------------
(* VarIdxMapValue: the entries of a DeltaSetIndexMap.  The 32-bit masks     *)
(* 0xFFFF0000 and 0xFFFFFFFF - innerMask are wider than the integers of the *)
(* model; x & 0xFFFF0000 is computed as x less its low 16 bits, and         *)
(* x & outerMask as x less x & innerMask.                                   *)

VarIdx_innerBits(fmt) == 1 + BitAnd(fmt, 15)

VarIdx_entrySize(fmt) == 1 + ShiftRight(BitAnd(fmt, 48), 4)

\* raw = ((idx & 0xFFFF0000) >> outerShift) | (idx & innerMask)
VarIdx_pack(idx, innerBits) ==
    BitOr(ShiftRight(idx - (idx % 65536), 16 - innerBits),
          BitAnd(idx, Pow(2, innerBits) - 1))

\* idx = ((raw & outerMask) << outerShift) | (raw & innerMask)
VarIdx_unpack_raw(raw, innerBits) == raw

VarIdx_unpack(raw, innerBits) ==
    BitOr(ShiftLeft(raw - BitAnd(raw, Pow(2, innerBits) - 1), 16 - innerBits),
          BitAnd(raw, Pow(2, innerBits) - 1))

VarIdxWritten(status, mappingCount, data) ==
    [status |-> status, mappingCount |-> mappingCount, data |-> data]

VarIdxNotWritten == VarIdxWritten("none", <<>>, <<>>)

\* The loop of VarIdxMapValue.write: writeUInt8, writeUShort, writeUInt24 or
\* writeULong of every raw value; a raw value the entry cannot hold raises.
RECURSIVE VarIdxMapValue_writeLoop(_, _, _, _, _)
VarIdxMapValue_writeLoop(mapping, innerBits, entrySize, mappingCount, data) ==
    IF mapping = <<>> THEN VarIdxWritten("ok", mappingCount, data)
    ELSE LET raw == VarIdx_pack(Head(mapping), innerBits)
         IN  IF entrySize < 4 /\ raw >= Pow(256, entrySize)
             THEN VarIdxWritten(IF entrySize = 3 THEN "AssertionError" ELSE "struct.error",
                                mappingCount, data)
             ELSE VarIdxMapValue_writeLoop(Tail(mapping), innerBits, entrySize,
                                           mappingCount, data \o BE(raw, entrySize))

\* VarIdxMapValue.write: MappingCount is set to the length of the mapping,
\* then the entries are written.
VarIdxMapValue_write(fmt, mapping) ==
    VarIdxMapValue_writeLoop(mapping, VarIdx_innerBits(fmt), VarIdx_entrySize(fmt),
                             <<Len(mapping)>>, <<>>)

\* The loop of VarIdxMapValue.read for the n entries left.
RECURSIVE VarIdxMapValue_readLoop(_, _, _, _, _, _)
VarIdxMapValue_readLoop(n, innerBits, entrySize, data, pos, mapping) ==
    IF n = 0 THEN ReadOk(mapping, pos)
    ELSE IF ~InData(data, pos, entrySize) THEN ReadFailed("struct.error", pos)
    ELSE VarIdxMapValue_readLoop(n - 1, innerBits, entrySize, data, pos + entrySize,
             Append(mapping, VarIdx_unpack(FromBE(data, pos, entrySize), innerBits)))

\* VarIdxMapValue.read with the reader at byte offset pos.
VarIdxMapValue_read(fmt, nItems, data, pos) ==
    VarIdxMapValue_readLoop(nItems, VarIdx_innerBits(fmt), VarIdx_entrySize(fmt),
                            data, pos, <<>>)

----------------------------------------------------------------------------
(* The inputs of VarIdxMapValue.                                            *)

\* 0, 0x0145, 0x00010145 and 0x00012345.
VarIdxSamples == {0, 325, 65861, 74565}

\* Every EntryFormat made of an inner bit count and an entry size, and
\* 0x0040, 0x0087 and 0x8018, which set a bit outside the two fields.
EntryFormats == {inner + 16 * size : inner \in 0..15, size \in 0..3} \cup {64, 135, 32792}

----------------------------------------------------------------------------
(* StructWithLength.read.  The table class of the struct starts with its    *)
(* StructLength field, lengthSize bytes wide, and its other fields take     *)
(* fieldBytes bytes.                                                        *)

\* table.decompile(reader, font) with the reader at byte offset pos: the
\* table, of which StructLength is kept, and the position the reader is
\* left at.
StructWithLength_decompile(schema, data, pos) ==
    IF ~InData(data, pos, schema.lengthSize + schema.fieldBytes)
    THEN ReadFailed("struct.error", pos)
    ELSE ReadOk([StructLength |-> FromBE(data, pos, schema.lengthSize)],
                pos + schema.lengthSize + schema.fieldBytes)

\* StructWithLength.read without reader.seek(pos + table.StructLength).
StructWithLength_read_no_seek(schema, data, pos) ==
    StructWithLength_decompile(schema, data, pos)

\* StructWithLength.read with the reader at byte offset pos.
StructWithLength_read(schema, data, pos) ==
    LET table == StructWithLength_decompile(schema, data, pos)
    IN  IF table.status # "ok" THEN table
        ELSE ReadOk(table.value, pos + table.value.StructLength)

----------------------------------------------------------------------------
(* GlyphCIDMap.read.                                                        *)

\* reader.readUShortArray(count) with the reader at byte offset pos, all
\* count entries being under the reader.
readUShortArray(data, pos, count) == [i \in 1..count |-> FromBE(data, pos + 2 * (i - 1), 2)]

\* The loop of GlyphCIDMap.read over range(n), from glyphID on.
RECURSIVE GlyphCIDMap_readLoop(_, _, _, _, _)
GlyphCIDMap_readLoop(order, cids, glyphID, n, result) ==
    IF glyphID >= n THEN [status |-> "ok", value |-> result]
    ELSE IF glyphID >= Len(cids) THEN [status |-> "IndexError", value |-> result]
    ELSE IF cids[glyphID + 1] = 65535
    THEN GlyphCIDMap_readLoop(order, cids, glyphID + 1, n, result)
    ELSE IF glyphID >= Len(order) THEN [status |-> "IndexError", value |-> result]
    ELSE GlyphCIDMap_readLoop(order, cids, glyphID + 1, n,
                              Put(result, order[glyphID + 1], cids[glyphID + 1]))

\* GlyphCIDMap.read whose loop runs over range(len(cids)).
GlyphCIDMap_read_all_entries(order, data, pos) ==
    LET count == FromBE(data, pos, 2)
        cids == readUShortArray(data, pos + 2, count)
        loop == GlyphCIDMap_readLoop(order, cids, 0, Len(cids), EmptyMapping)
    IN  IF loop.status # "ok" THEN ReadFailed(loop.status, pos + 2 + 2 * count)
        ELSE ReadOk(loop.value, pos + 2 + 2 * count)

\* GlyphCIDMap.read with the reader at byte offset pos.  The warning it
\* logs when count exceeds the glyph count changes no state.
GlyphCIDMap_read(order, data, pos) ==
    LET count == FromBE(data, pos, 2)
        cids == readUShortArray(data, pos + 2, count)
        loop == GlyphCIDMap_readLoop(order, cids, 0, Min2(Len(cids), Len(order)),
                                     EmptyMapping)
    IN  IF loop.status # "ok" THEN ReadFailed(loop.status, pos + 2 + 2 * count)
        ELSE ReadOk(loop.value, pos + 2 + 2 * count)

----------------------------------------------------------------------------
(* VarDataValue.write: a row of deltas, the first ones as shorts and the    *)
(* others as signed bytes.                                                  *)

\* struct.pack(">h", value) and struct.pack(">b", value) of a value in range.
writeShort(value) == BE(value % 65536, 2)

writeInt8(value) == BE(value % 256, 1)

VarDataWritten(status, data) == [status |-> status, data |-> data]

VarDataNotWritten == VarDataWritten("none", <<>>)

\* VarDataValue.write that stops at regionCount.
VarDataValue_write_no_padding(tableDict, value) ==
    LET regionCount == tableDict["VarRegionCount"]
        shortCount == tableDict["NumShorts"]
        nShorts == Min2(regionCount, shortCount)
        bad(i) == \/ i >= Len(value)
                  \/ i < nShorts /\ (value[i + 1] < -32768 \/ value[i + 1] > 32767)
                  \/ i >= nShorts /\ (value[i + 1] < -128 \/ value[i + 1] > 127)
        stop == IF \E i \in 0..(regionCount - 1) : bad(i)
                THEN CHOOSE i \in 0..(regionCount - 1) :
                         bad(i) /\ \A j \in 0..(i - 1) : ~bad(j)
                ELSE regionCount
    IN  VarDataWritten(IF stop = regionCount THEN "ok"
                       ELSE IF stop >= Len(value) THEN "IndexError" ELSE "struct.error",
                       Flatten([k \in 1..stop |->
                                   IF k <= nShorts THEN writeShort(value[k])
                                   ELSE writeInt8(value[k])]))

\* VarDataValue.write: the three loops run over the indices 0, 1, ... in
\* order; the call stops at the first index whose value is missing or does
\* not fit, with the bytes of the indices before it written.
VarDataValue_write(tableDict, value) ==
    LET regionCount == tableDict["VarRegionCount"]
        shortCount == tableDict["NumShorts"]
        nShorts == Min2(regionCount, shortCount)
        n == Max2(regionCount, shortCount)
        bad(i) == \/ i >= Len(value)
                  \/ i < nShorts /\ (value[i + 1] < -32768 \/ value[i + 1] > 32767)
                  \/ i >= nShorts /\ (value[i + 1] < -128 \/ value[i + 1] > 127)
        stop == IF \E i \in 0..(regionCount - 1) : bad(i)
                THEN CHOOSE i \in 0..(regionCount - 1) :
                         bad(i) /\ \A j \in 0..(i - 1) : ~bad(j)
                ELSE n
    IN  VarDataWritten(IF stop = n THEN "ok"
                       ELSE IF stop >= Len(value) THEN "IndexError" ELSE "struct.error",
                       Flatten([k \in 1..stop |->
                                   IF k <= nShorts THEN writeShort(value[k])
                                   ELSE IF k <= regionCount THEN writeInt8(value[k])
                                   ELSE writeInt8(0)]))

----------------------------------------------------------------------------
(* The inputs of VarDataValue.                                              *)

\* The ends of the short and of the signed byte range, the values next to
\* the byte range, and -1.
VarDataSamples == {-32768, -129, -128, -1, 127, 32767}

VarDataTableDicts ==
    {[k \in {"VarRegionCount", "NumShorts"} |->
        IF k = "VarRegionCount" THEN r ELSE n] :
        r \in 0..MaxRegionCount, n \in 0..MaxNumShorts}

----------------------------------------------------------------------------
(* Struct.xmlRead and font._propagator.  An element of the XML content is   *)
(* [cls, empty, content]: the table class its converter builds, whether it  *)
(* carries empty="1", and its child elements.  The class "unknown" stands   *)
(* for an element no converter of the parent table reads.                   *)

\* The table classes: the names of their propagated converters in the order
\* of getConverters(), and whether the class has a postRead method.
TableClass(propagated, postRead) == [propagated |-> propagated, postRead |-> postRead]

TableClasses ==
    [c \in {"Plain", "One", "Two", "Post"} |->
        CASE c = "Plain" -> TableClass(<<>>, FALSE)
          [] c = "One" -> TableClass(<<"ClassCount">>, FALSE)
          [] c = "Two" -> TableClass(<<"Class2Count", "ClassCount">>, FALSE)
          [] c = "Post" -> TableClass(<<"ClassCount">>, TRUE)]

\* The font without a _propagator attribute.
NoPropagator == [has |-> FALSE, names |-> {}]

XmlOutcome(status, font) == [status |-> status, font |-> font]

\* The first loop of xmlRead over the propagated converters left: the
\* propagator is created when the font has none, and a name that is
\* installed already fails the assertion.
RECURSIVE xmlRead_install(_, _)
xmlRead_install(names, font) ==
    IF names = <<>> THEN XmlOutcome("ok", font)
    ELSE IF Head(names) \in font.names THEN XmlOutcome("AssertionError", font)
    ELSE xmlRead_install(Tail(names),
                         [has |-> TRUE, names |-> font.names \cup {Head(names)}])

\* The last loop of xmlRead over the propagated converters left: the name
\* is deleted, and the propagator with its last name.
RECURSIVE xmlRead_cleanup(_, _)
xmlRead_cleanup(names, font) ==
    IF names = <<>> THEN XmlOutcome("ok", font)
    ELSE IF ~font.has THEN XmlOutcome("AttributeError", font)
    ELSE IF Head(names) \notin font.names THEN XmlOutcome("KeyError", font)
    ELSE xmlRead_cleanup(Tail(names),
                         IF font.names = {Head(names)} THEN NoPropagator
                         ELSE [font EXCEPT !.names = @ \ {Head(names)}])

RECURSIVE Struct_xmlRead(_, _)
RECURSIVE xmlRead_content(_, _)

\* The loop over the content: table.fromXML of every child element, which
\* raises for an element it has no converter for and otherwise calls the
\* xmlRead of the child's converter.
xmlRead_content(content, font) ==
    IF content = <<>> THEN XmlOutcome("ok", font)
    ELSE IF Head(content).cls = "unknown" THEN XmlOutcome("KeyError", font)
    ELSE LET r == Struct_xmlRead(Head(content), font)
         IN  IF r.status # "ok" THEN r
             ELSE xmlRead_content(Tail(content), r.font)

\* Struct.xmlRead: the outcome, and the font's propagator afterwards.  An
\* exception leaves the function where it is raised.
Struct_xmlRead(element, font) ==
    IF element.empty THEN XmlOutcome("ok", font)
    ELSE LET class == TableClasses[element.cls]
             noPostRead == ~class.postRead
             cleanPropagation == noPostRead /\ class.propagated # <<>>
             installed == IF noPostRead THEN xmlRead_install(class.propagated, font)
                          ELSE XmlOutcome("ok", font)
         IN  IF installed.status # "ok" THEN installed
             ELSE LET read == xmlRead_content(element.content, installed.font)
                  IN  IF read.status # "ok" THEN read
                      ELSE IF cleanPropagation
                      THEN xmlRead_cleanup(class.propagated, read.font)
                      ELSE read

----------------------------------------------------------------------------
(* The inputs of Struct.xmlRead.                                            *)

Element(cls, empty, content) == [cls |-> cls, empty |-> empty, content |-> content]

\* The child elements: a table of every class without content, an empty
\* table, and an element the parent has no converter for.
ChildElements ==
    {Element(c, FALSE, <<>>) : c \in DOMAIN TableClasses}
        \cup {Element("One", TRUE, <<>>), Element("unknown", FALSE, <<>>)}

\* The elements handed to a top-level xmlRead.
TopElements ==
    {Element(c, FALSE, content) :
        c \in DOMAIN TableClasses, content \in SeqsUpTo(ChildElements, MaxChildren)}
        \cup {Element("One", TRUE, <<>>)}

----------------------------------------------------------------------------
(* Struct.xmlRead step by step: the calls in progress form a stack, and     *)
(* font._propagator maps a propagated name to its cell, the CountReference  *)
(* into the table that installed it.  Tables are numbered as they are       *)
(* created.                                                                 *)

\* The font without a _propagator attribute.
NoCells == [has |-> FALSE, cells |-> EmptyMapping]

\* setattr(table, conv.name, None) and CountReference(table.__dict__,
\* conv.name): a cell into the table, whose entry holds None.
CountReference(table) == [table |-> table, value |-> None]

\* The first loop of xmlRead without its assertion: the cell of a name that
\* is installed already is replaced.
RECURSIVE xmlRead_installCells_overwrite(_, _, _)
xmlRead_installCells_overwrite(names, font, table) ==
    IF names = <<>> THEN XmlOutcome("ok", font)
    ELSE xmlRead_installCells_overwrite(Tail(names),
             [has |-> TRUE, cells |-> Put(font.cells, Head(names), CountReference(table))],
             table)

\* The first loop of xmlRead over the propagated converters left, for the
\* table just created.
RECURSIVE xmlRead_installCells(_, _, _)
xmlRead_installCells(names, font, table) ==
    IF names = <<>> THEN XmlOutcome("ok", font)
    ELSE IF Head(names) \in DOMAIN font.cells THEN XmlOutcome("AssertionError", font)
    ELSE xmlRead_installCells(Tail(names),
             [has |-> TRUE, cells |-> Put(font.cells, Head(names), CountReference(table))],
             table)

\* The last loop of xmlRead over the propagated converters left.
RECURSIVE xmlRead_deleteCells(_, _)
xmlRead_deleteCells(names, font) ==
    IF names = <<>> THEN XmlOutcome("ok", font)
    ELSE IF ~font.has THEN XmlOutcome("AttributeError", font)
    ELSE IF Head(names) \notin DOMAIN font.cells THEN XmlOutcome("KeyError", font)
    ELSE xmlRead_deleteCells(Tail(names),
             IF DOMAIN font.cells = {Head(names)} THEN NoCells
             ELSE [font EXCEPT !.cells = [n \in DOMAIN @ \ {Head(names)} |-> @[n]]])

\* A call in progress: the class of its table, the content it has not
\* imported yet, and its table.  The caller of the outermost xmlRead is the
\* first entry of the stack; it has no table class.
Frame(cls, content, table) == [cls |-> cls, content |-> content, table |-> table]

----------------------------------------------------------------------------
(* The idle values: what the variables of a converter family hold in the    *)
(* specification of another family.  The font is shared.                    *)

LookupIdle ==
    /\ lkValueSize = 0
    /\ lkValue = <<>>
    /\ lkOut1 = NoOutcome
    /\ lkOut2 = NoOutcome
    /\ lkData = <<>>
    /\ lkRead = NotRead

StxIdle ==
    /\ stxActionClass = "none"
    /\ stxTable = <<>>
    /\ stxOut = StxNoOutcome
    /\ stxRead = StxNotRead

LazyIdle ==
    /\ lzFontLazy = FALSE
    /\ lzConv = "none"
    /\ lzTableDict = EmptyMapping
    /\ lzData = <<>>
    /\ lzCount = 0
    /\ lzReaderPos = 0
    /\ lzList = NoList
    /\ lzGot = NoAccess
    /\ lzReads = <<>>

TableIdle ==
    /\ tbConv = "none"
    /\ tbValue = None
    /\ tbRepeatIndex = NoRepeatIndex
    /\ tbWriter0 = NoWriter
    /\ tbWriter = NoWriter
    /\ tbWrote = FALSE
    /\ tbFontLazy = FALSE
    /\ tbData = <<>>
    /\ tbReaderPos = 0
    /\ tbRead = TableNotRead

SwlIdle ==
    /\ swSchema = <<>>
    /\ swStructLength = <<0>>
    /\ swWriter0 = NoWriter
    /\ swWriter = NoWriter
    /\ swOut = SwlNoOutcome

DeltaIdle ==
    /\ dvTableDict = EmptyMapping
    /\ dvValue = <<>>
    /\ dvWritten = DeltaNotWritten
    /\ dvRead = ReadFailed("none", 0)

VarIdxIdle ==
    /\ vmFormat = 0
    /\ vmMapping = <<>>
    /\ vmWritten = VarIdxNotWritten
    /\ vmRead = ReadFailed("none", 0)

PropagatorIdle ==
    /\ prFont = NoPropagator
    /\ prCalls = 0
    /\ prLast = <<>>

VarDataIdle ==
    /\ vdTableDict = <<>>
    /\ vdValue = <<>>
    /\ vdWritten = VarDataNotWritten
    /\ vdRead = ReadFailed("none", 0)

StructReadIdle ==
    /\ srSchema = <<>>
    /\ srData = <<>>
    /\ srStart = 0
    /\ srRead = ReadFailed("none", 0)

ImportIdle ==
    /\ imFont = NoCells
    /\ imStack = <<>>
    /\ imTables = 0
    /\ imStatus = "none"

CidIdle ==
    /\ cidData = <<>>
    /\ cidStart = 0
    /\ cidRead = ReadFailed("none", 0)

----------------------------------------------------------------------------
(* The AATLookup specification: a mapping is encoded, encoded again, and    *)
(* the bytes are decoded under every leading format code.                   *)

LookupInit ==
    /\ lkValueSize \in {1, 2, 4}
    /\ \/ /\ glyphOrder \in {GlyphOrderOf(n) : n \in 1..MaxGlyphs}
          /\ lkValue \in UNION {[S -> LookupValueSet] : S \in SUBSET GlyphNames(glyphOrder)}
       \/ /\ glyphOrder = GlyphOrderOf(BigFontGlyphs)
          /\ lkValue = ConcreteMapping(glyphOrder)
    /\ lkOut1 = NoOutcome
    /\ lkOut2 = NoOutcome
    /\ lkData = <<>>
    /\ lkRead = NotRead

LkWrite ==
    /\ lkOut1 = NoOutcome
    /\ \E items \in DictItems(lkValue) :
           lkOut1' = AATLookup_write(glyphOrder, items, lkValueSize)
    /\ UNCHANGED <<glyphOrder, lkValueSize, lkValue, lkOut2, lkData, lkRead>>
    /\ UNCHANGED OutsideLookup

LkWriteAgain ==
    /\ lkOut1 # NoOutcome
    /\ lkOut2 = NoOutcome
    /\ \E items \in DictItems(lkValue) :
           lkOut2' = AATLookup_write(glyphOrder, items, lkValueSize)
    /\ UNCHANGED <<glyphOrder, lkValueSize, lkValue, lkOut1, lkData, lkRead>>
    /\ UNCHANGED OutsideLookup

\* The bytes written, with the leading format code replaced by code.
LkRead ==
    /\ lkOut1.status = "ok"
    /\ \E code \in 0..MaxFormatCode :
           /\ lkData' = writeUShort(code) \o SubSeq(lkOut1.data, 3, Len(lkOut1.data))
           /\ lkRead' = AATLookup_read(glyphOrder, lkData', lkValueSize)
    /\ UNCHANGED <<glyphOrder, lkValueSize, lkValue, lkOut1, lkOut2>>
    /\ UNCHANGED OutsideLookup

LookupNext == LkWrite \/ LkWriteAgain \/ LkRead

InitLookup ==
    LookupInit /\ StxIdle /\ LazyIdle /\ TableIdle /\ SwlIdle /\ DeltaIdle /\ VarIdxIdle
        /\ PropagatorIdle
        /\ VarDataIdle
        /\ StructReadIdle
        /\ ImportIdle
        /\ CidIdle

SpecLookup == InitLookup /\ [][LookupNext]_vars

----------------------------------------------------------------------------
(* The STXHeader specification: a state table is encoded.                   *)

StxInit ==
    /\ glyphOrder = GlyphOrderOf(StxGlyphs)
    /\ stxActionClass \in {"Contextual", "Rearrangement"}
    /\ \E gc \in StxGlyphClasses(glyphOrder),
          st \in StxStates(stxActionClass),
          n \in StxLookupCounts(stxActionClass) :
           stxTable = [GlyphClassCount |-> MaxClass + 1,
                       GlyphClasses |-> gc,
                       States |-> st,
                       PerGlyphLookups |-> [i \in 1..n |-> SomeLookup(glyphOrder)]]
    /\ stxOut = StxNoOutcome
    /\ stxRead = StxNotRead

StxWrite ==
    /\ stxOut = StxNoOutcome
    /\ stxOut' = STXHeader_write(glyphOrder, stxActionClass, stxTable)
    /\ UNCHANGED <<glyphOrder, stxActionClass, stxTable, stxRead>>
    /\ UNCHANGED OutsideStx

\* The bytes written are decoded by a reader positioned at their start.
StxRead ==
    /\ stxOut.status = "ok"
    /\ stxRead = StxNotRead
    /\ stxRead' = STXHeader_read(glyphOrder, stxActionClass, stxOut.written)
    /\ UNCHANGED <<glyphOrder, stxActionClass, stxTable, stxOut>>
    /\ UNCHANGED OutsideStx

StxNext == StxWrite \/ StxRead

InitSTX ==
    StxInit /\ LookupIdle /\ LazyIdle /\ TableIdle /\ SwlIdle /\ DeltaIdle /\ VarIdxIdle
        /\ PropagatorIdle
        /\ VarDataIdle
        /\ StructReadIdle
        /\ ImportIdle
        /\ CidIdle

SpecSTX == InitSTX /\ [][StxNext]_vars


----------------------------------------------------------------------------
(* The readArray specification: an array is read, and a lazy list is        *)
(* indexed and sliced, MaxAccesses times at most.                           *)

LazyInit ==
    /\ glyphOrder = GlyphOrderOf(1)
    /\ lzFontLazy \in BOOLEAN
    /\ lzConv \in ArrayConverters
    /\ lzTableDict \in (IF lzConv = "VarDataValue" THEN VarDataDicts
                        ELSE {EmptyMapping})
    /\ lzCount \in ArrayCounts
    /\ lzData = ArrayBytes(StartPos + 2 * lzCount)
    /\ lzReaderPos = StartPos
    /\ lzList = NoList
    /\ lzGot = NoAccess
    /\ lzReads = [i \in 1..lzCount |-> 0]

LzReadArray ==
    /\ lzList = NoList
    /\ lzGot = NoAccess
    /\ LET r == readArray(lzFontLazy, lzConv, lzTableDict, lzData,
                          lzReaderPos, lzCount)
       IN  /\ lzList' = r.list
           /\ lzReaderPos' = r.readerPos
           /\ lzGot' = [kind |-> "readArray", status |-> r.status, n |-> 0,
                        i |-> 0, j |-> 0, value |-> <<>>]
    /\ UNCHANGED <<lzFontLazy, lzConv, lzTableDict, lzData, lzCount, lzReads>>
    /\ UNCHANGED OutsideLazy

LzGetItem ==
    /\ lzList.kind = "lazy"
    /\ lzGot.n < MaxAccesses
    /\ \E k \in 0..(lzCount - 1) :
           LET g == LazyList_getitem(lzList, lzReads, lzConv, lzData, k)
           IN  /\ lzList' = g.list
               /\ lzReads' = g.reads
               /\ lzGot' = [kind |-> "item", status |-> g.status,
                            n |-> lzGot.n + 1, i |-> k, j |-> k + 1,
                            value |-> g.value]
    /\ UNCHANGED <<lzFontLazy, lzConv, lzTableDict, lzData, lzCount, lzReaderPos>>
    /\ UNCHANGED OutsideLazy

LzGetSlice ==
    /\ lzList.kind = "lazy"
    /\ lzGot.n < MaxAccesses
    /\ \E i \in 0..lzCount, len \in 0..MaxSliceLen :
           LET g == LazyList_getslice(lzList, lzReads, lzConv, lzData, i, i + len)
           IN  /\ lzList' = g.list
               /\ lzReads' = g.reads
               /\ lzGot' = [kind |-> "slice", status |-> g.status,
                            n |-> lzGot.n + 1, i |-> i, j |-> i + len,
                            value |-> g.value]
    /\ UNCHANGED <<lzFontLazy, lzConv, lzTableDict, lzData, lzCount, lzReaderPos>>
    /\ UNCHANGED OutsideLazy

LazyNext == LzReadArray \/ LzGetItem \/ LzGetSlice

InitLazy ==
    LazyInit /\ LookupIdle /\ StxIdle /\ TableIdle /\ SwlIdle /\ DeltaIdle /\ VarIdxIdle
        /\ PropagatorIdle
        /\ VarDataIdle
        /\ StructReadIdle
        /\ ImportIdle
        /\ CidIdle

SpecLazy == InitLazy /\ [][LazyNext]_vars

----------------------------------------------------------------------------
(* The offset converter specification: a value is written to a writer, and  *)
(* an offset field is read.                                                 *)

TableInit ==
    /\ glyphOrder = GlyphOrderOf(1)
    /\ tbConv \in OffsetConverters
    /\ tbValue \in {None, SomeTable}
    /\ tbRepeatIndex \in RepeatIndexes
    /\ tbWriter0 \in SomeWriters
    /\ tbWriter = tbWriter0
    /\ tbWrote = FALSE
    /\ tbFontLazy \in BOOLEAN
    /\ tbData \in OffsetBytes
    /\ tbReaderPos \in {0, 4}
    /\ tbRead = TableNotRead

TbWrite ==
    /\ ~tbWrote
    /\ tbWriter' = Offset_write(tbConv, tbWriter, tbValue, tbRepeatIndex)
    /\ tbWrote' = TRUE
    /\ UNCHANGED <<tbConv, tbValue, tbRepeatIndex, tbWriter0, tbFontLazy, tbData,
                   tbReaderPos, tbRead>>
    /\ UNCHANGED OutsideTable

TbRead ==
    /\ tbRead = TableNotRead
    /\ tbRead' = Table_read(tbConv, tbFontLazy, tbData, tbReaderPos)
    /\ UNCHANGED <<tbConv, tbValue, tbRepeatIndex, tbWriter0, tbWriter, tbWrote,
                   tbFontLazy, tbData, tbReaderPos>>
    /\ UNCHANGED OutsideTable

TableNext == TbWrite \/ TbRead

InitTable ==
    TableInit /\ LookupIdle /\ StxIdle /\ LazyIdle /\ SwlIdle /\ DeltaIdle /\ VarIdxIdle
        /\ PropagatorIdle
        /\ VarDataIdle
        /\ StructReadIdle
        /\ ImportIdle
        /\ CidIdle

SpecTable == InitTable /\ [][TableNext]_vars

----------------------------------------------------------------------------
(* The StructWithLength specification: a struct is written.                 *)

SwlInit ==
    /\ glyphOrder = GlyphOrderOf(1)
    /\ swSchema \in SwlSchemas
    /\ swStructLength = <<0>>
    /\ swWriter0 \in SwlWriters
    /\ swWriter = swWriter0
    /\ swOut = SwlNoOutcome

SwlWrite ==
    /\ swOut = SwlNoOutcome
    /\ LET r == StructWithLength_write(swSchema, swStructLength, swWriter)
       IN  /\ swOut' = r.out
           /\ swWriter' = r.writer
           /\ swStructLength' = r.structLength
    /\ UNCHANGED <<swSchema, swWriter0>>
    /\ UNCHANGED OutsideSwl

SwlNext == SwlWrite

InitSwl ==
    SwlInit /\ LookupIdle /\ StxIdle /\ LazyIdle /\ TableIdle /\ DeltaIdle /\ VarIdxIdle
        /\ PropagatorIdle
        /\ VarDataIdle
        /\ StructReadIdle
        /\ ImportIdle
        /\ CidIdle

SpecSwl == InitSwl /\ [][SwlNext]_vars

----------------------------------------------------------------------------
(* The DeltaValue specification: a delta list is written, and the bytes     *)
(* written are read; the reader is over these bytes and the two bytes that  *)
(* follow them in the font.                                                 *)

DeltaInit ==
    /\ glyphOrder = GlyphOrderOf(1)
    /\ dvTableDict \in DeviceDicts
    /\ dvValue \in DeltaLists(Pow(2, Min2(Max2(dvTableDict["DeltaFormat"], 1), 3)),
                              dvTableDict["EndSize"] - dvTableDict["StartSize"] + 1)
    /\ dvWritten = DeltaNotWritten
    /\ dvRead = ReadFailed("none", 0)

DvWrite ==
    /\ dvWritten = DeltaNotWritten
    /\ dvWritten' = DeltaValue_write(dvTableDict, dvValue)
    /\ UNCHANGED <<dvTableDict, dvValue, dvRead>>
    /\ UNCHANGED OutsideDelta

DvRead ==
    /\ dvWritten # DeltaNotWritten
    /\ dvRead = ReadFailed("none", 0)
    /\ dvRead' = DeltaValue_read(dvTableDict, dvWritten.data \o <<128, 1>>, 0)
    /\ UNCHANGED <<dvTableDict, dvValue, dvWritten>>
    /\ UNCHANGED OutsideDelta

DeltaNext == DvWrite \/ DvRead

InitDelta ==
    DeltaInit /\ LookupIdle /\ StxIdle /\ LazyIdle /\ TableIdle /\ SwlIdle /\ VarIdxIdle
        /\ PropagatorIdle
        /\ VarDataIdle
        /\ StructReadIdle
        /\ ImportIdle
        /\ CidIdle

SpecDelta == InitDelta /\ [][DeltaNext]_vars

----------------------------------------------------------------------------
(* The VarIdxMapValue specification: a mapping is written, and the bytes    *)
(* written are read with the MappingCount the write has set.                *)

VarIdxInit ==
    /\ glyphOrder = GlyphOrderOf(1)
    /\ vmFormat \in EntryFormats
    /\ vmMapping \in SeqsUpTo(VarIdxSamples, MaxMappingCount)
    /\ vmWritten = VarIdxNotWritten
    /\ vmRead = ReadFailed("none", 0)

VmWrite ==
    /\ vmWritten = VarIdxNotWritten
    /\ vmWritten' = VarIdxMapValue_write(vmFormat, vmMapping)
    /\ UNCHANGED <<vmFormat, vmMapping, vmRead>>
    /\ UNCHANGED OutsideVarIdx

VmRead ==
    /\ vmWritten.status = "ok"
    /\ vmRead = ReadFailed("none", 0)
    /\ vmRead' = VarIdxMapValue_read(vmFormat, vmWritten.mappingCount[1],
                                     vmWritten.data, 0)
    /\ UNCHANGED <<vmFormat, vmMapping, vmWritten>>
    /\ UNCHANGED OutsideVarIdx

VarIdxNext == VmWrite \/ VmRead

InitVarIdx ==
    VarIdxInit /\ LookupIdle /\ StxIdle /\ LazyIdle /\ TableIdle /\ SwlIdle /\ DeltaIdle
        /\ PropagatorIdle
        /\ VarDataIdle
        /\ StructReadIdle
        /\ ImportIdle
        /\ CidIdle

SpecVarIdx == InitVarIdx /\ [][VarIdxNext]_vars

----------------------------------------------------------------------------
(* The propagator specification: top-level Struct.xmlRead calls on one      *)
(* font, one after the other.                                               *)

PropagatorInit ==
    /\ glyphOrder = GlyphOrderOf(1)
    /\ prFont = NoPropagator
    /\ prCalls = 0
    /\ prLast = <<>>

PrXmlRead ==
    /\ prCalls < MaxCalls
    /\ \E element \in TopElements :
           LET r == Struct_xmlRead(element, prFont)
           IN  /\ prFont' = r.font
               /\ prLast' = <<[element |-> element, status |-> r.status,
                               before |-> prFont]>>
    /\ prCalls' = prCalls + 1
    /\ UNCHANGED OutsidePropagator

PropagatorNext == PrXmlRead

InitPropagator ==
    PropagatorInit /\ LookupIdle /\ StxIdle /\ LazyIdle /\ TableIdle /\ SwlIdle
        /\ DeltaIdle /\ VarIdxIdle
        /\ VarDataIdle
        /\ StructReadIdle
        /\ ImportIdle
        /\ CidIdle

SpecPropagator == InitPropagator /\ [][PropagatorNext]_vars

----------------------------------------------------------------------------
(* The VarDataValue specification: a row is written, and the bytes written  *)
(* are read; the reader is over these bytes and one byte that follows them. *)

VarDataInit ==
    /\ glyphOrder = GlyphOrderOf(1)
    /\ vdTableDict \in VarDataTableDicts
    /\ vdValue \in SeqsUpTo(VarDataSamples, MaxRegionCount)
    /\ vdWritten = VarDataNotWritten
    /\ vdRead = ReadFailed("none", 0)

VdWrite ==
    /\ vdWritten = VarDataNotWritten
    /\ vdWritten' = VarDataValue_write(vdTableDict, vdValue)
    /\ UNCHANGED <<vdTableDict, vdValue, vdRead>>
    /\ UNCHANGED OutsideVarData

VdRead ==
    /\ vdWritten # VarDataNotWritten
    /\ vdRead = ReadFailed("none", 0)
    /\ vdRead' = VarDataValue_read(vdTableDict, vdWritten.data \o <<255>>, 0)
    /\ UNCHANGED <<vdTableDict, vdValue, vdWritten>>
    /\ UNCHANGED OutsideVarData

VarDataNext == VdWrite \/ VdRead

InitVarData ==
    VarDataInit /\ LookupIdle /\ StxIdle /\ LazyIdle /\ TableIdle /\ SwlIdle /\ DeltaIdle
        /\ VarIdxIdle /\ PropagatorIdle
        /\ StructReadIdle
        /\ ImportIdle
        /\ CidIdle

SpecVarData == InitVarData /\ [][VarDataNext]_vars

----------------------------------------------------------------------------
(* The StructWithLength.read specification: a struct that declares any      *)
(* length up to MaxStructLength is read from any of two positions.          *)

StructReadInit ==
    /\ glyphOrder = GlyphOrderOf(1)
    /\ srSchema \in {[lengthSize |-> w, fieldBytes |-> n] :
                         w \in {1, 2, 4}, n \in 0..MaxFieldBytes}
    /\ srStart \in {0, 3}
    /\ \E length \in 0..MaxStructLength, rest \in 0..MaxFieldBytes :
           srData = Zeros(srStart) \o BE(length, srSchema.lengthSize)
                        \o [p \in 1..rest |-> 170]
    /\ srRead = ReadFailed("none", 0)

SrRead ==
    /\ srRead = ReadFailed("none", 0)
    /\ srRead' = StructWithLength_read(srSchema, srData, srStart)
    /\ UNCHANGED <<srSchema, srData, srStart>>
    /\ UNCHANGED OutsideStructRead

StructReadNext == SrRead

InitStructRead ==
    StructReadInit /\ LookupIdle /\ StxIdle /\ LazyIdle /\ TableIdle /\ SwlIdle
        /\ DeltaIdle /\ VarIdxIdle /\ PropagatorIdle /\ VarDataIdle
        /\ ImportIdle
        /\ CidIdle

SpecStructRead == InitStructRead /\ [][StructReadNext]_vars

----------------------------------------------------------------------------
(* The import specification: one top-level Struct.xmlRead call on a font    *)
(* without a propagator, followed call by call through its child elements.  *)

ImportInit ==
    /\ glyphOrder = GlyphOrderOf(1)
    /\ imFont = NoCells
    /\ \E element \in TopElements : imStack = <<Frame("caller", <<element>>, 0)>>
    /\ imTables = 0
    /\ imStatus = "running"

\* The innermost call imports its next child element: fromXML raises for an
\* element it has no converter for; xmlRead returns None for an empty
\* element; otherwise xmlRead creates the table, installs its propagated
\* names when the class has no postRead, and goes on to its content.
ImEnter ==
    /\ imStatus = "running"
    /\ imStack[Len(imStack)].content # <<>>
    /\ LET top == Len(imStack)
           child == Head(imStack[top].content)
           stack1 == [imStack EXCEPT ![top].content = Tail(@)]
       IN  IF child.cls = "unknown"
           THEN /\ imStatus' = "KeyError"
                /\ imStack' = stack1
                /\ UNCHANGED <<imFont, imTables>>
           ELSE IF child.empty
           THEN /\ imStack' = stack1
                /\ UNCHANGED <<imFont, imTables, imStatus>>
           ELSE LET class == TableClasses[child.cls]
                    table == imTables + 1
                    installed == IF ~class.postRead
                                 THEN xmlRead_installCells(class.propagated, imFont, table)
                                 ELSE XmlOutcome("ok", imFont)
                IN  /\ imTables' = table
                    /\ imFont' = installed.font
                    /\ imStatus' = IF installed.status = "ok" THEN "running"
                                   ELSE installed.status
                    /\ imStack' = IF installed.status = "ok"
                                  THEN Append(stack1, Frame(child.cls, child.content, table))
                                  ELSE stack1
    /\ UNCHANGED OutsideImport

\* The innermost call has imported its content: it removes the names it
\* installed and returns its table.
ImLeave ==
    /\ imStatus = "running"
    /\ imStack[Len(imStack)].content = <<>>
    /\ IF Len(imStack) = 1
       THEN /\ imStatus' = "done"
            /\ UNCHANGED <<imFont, imStack>>
       ELSE LET class == TableClasses[imStack[Len(imStack)].cls]
                cleaned == IF ~class.postRead /\ class.propagated # <<>>
                           THEN xmlRead_deleteCells(class.propagated, imFont)
                           ELSE XmlOutcome("ok", imFont)
            IN  /\ imFont' = cleaned.font
                /\ imStatus' = IF cleaned.status = "ok" THEN "running" ELSE cleaned.status
                /\ imStack' = SubSeq(imStack, 1, Len(imStack) - 1)
    /\ UNCHANGED imTables
    /\ UNCHANGED OutsideImport

ImportNext == ImEnter \/ ImLeave

InitImport ==
    ImportInit /\ LookupIdle /\ StxIdle /\ LazyIdle /\ TableIdle /\ SwlIdle
        /\ DeltaIdle /\ VarIdxIdle /\ PropagatorIdle /\ VarDataIdle /\ StructReadIdle
        /\ CidIdle

SpecImport == InitImport /\ [][ImportNext]_vars

----------------------------------------------------------------------------
(* The GlyphCIDMap.read specification: a map that stores up to MaxCidCount  *)
(* entries is read for a font of up to MaxCidGlyphs glyphs.                 *)

\* An entry stores the CID 0, the CID 258, or 0xFFFF for no CID.
CidInit ==
    /\ glyphOrder \in {GlyphOrderOf(n) : n \in 0..MaxCidGlyphs}
    /\ cidStart \in {0, 3}
    /\ \E cids \in SeqsUpTo({0, 258, 65535}, MaxCidCount), rest \in {0, 1} :
           cidData = Zeros(cidStart) \o writeUShort(Len(cids))
                         \o Flatten([i \in 1..Len(cids) |-> writeUShort(cids[i])])
                         \o [p \in 1..rest |-> 170]
    /\ cidRead = ReadFailed("none", 0)

CdRead ==
    /\ cidRead = ReadFailed("none", 0)
    /\ cidRead' = GlyphCIDMap_read(glyphOrder, cidData, cidStart)
    /\ UNCHANGED <<glyphOrder, cidData, cidStart>>
    /\ UNCHANGED OutsideCid

CidNext == CdRead

InitCid ==
    CidInit /\ LookupIdle /\ StxIdle /\ LazyIdle /\ TableIdle /\ SwlIdle /\ DeltaIdle
        /\ VarIdxIdle /\ PropagatorIdle /\ VarDataIdle /\ StructReadIdle /\ ImportIdle

SpecCid == InitCid /\ [][CidNext]_vars

----------------------------------------------------------------------------
(* Properties of AATLookup.                                                 *)

\* The glyph IDs the mapping covers.
MappedIDs == {getGlyphID(glyphOrder, g) : g \in DOMAIN lkValue}

ValueOfID(gid) == lkValue[getGlyphName(glyphOrder, gid)]

\* A format is a candidate when it can represent the mapping: format 0 needs
\* every glyph of the font mapped, format 8 one unbroken run of glyph IDs.
StructurallyValid(f) ==
    CASE f = 0 -> MappedIDs = 0..(Len(glyphOrder) - 1)
      [] f = 8 -> \E lo \in MappedIDs : \E hi \in MappedIDs : MappedIDs = lo..hi
      [] OTHER -> f \in {2, 6}

\* The number of maximal runs of adjacent glyph IDs that share a value.
RunCount ==
    Cardinality({g \in MappedIDs :
        ~(g - 1 \in MappedIDs /\ ValueOfID(g - 1) = ValueOfID(g))})

EncodedSize(f) ==
    CASE f = 0 -> 2 + Len(glyphOrder) * lkValueSize
      [] f = 2 -> 12 + (RunCount + 1) * (lkValueSize + 4)
      [] f = 6 -> 12 + (Cardinality(MappedIDs) + 1) * (lkValueSize + 2)
      [] f = 8 -> 6 + Cardinality(MappedIDs) * lkValueSize

IsBestFormat(f) ==
    /\ f \in {0, 2, 6, 8}
    /\ StructurallyValid(f)
    /\ \A g \in {0, 2, 6, 8} :
           StructurallyValid(g) =>
               \/ EncodedSize(f) < EncodedSize(g)
               \/ (EncodedSize(f) = EncodedSize(g) /\ f <= g)

EmitsBestFormat(out) ==
    /\ out.status = "ok"
    /\ IsBestFormat(out.lookupFormat)
    /\ Len(out.data) = EncodedSize(out.lookupFormat)
    /\ FromBE(out.data, 0, 2) = out.lookupFormat
    /\ (Len(glyphOrder) >= 14 /\ lkValue = ConcreteMapping(glyphOrder)) =>
           out.lookupFormat = 8 /\ Len(out.data) = 6 + 4 * lkValueSize

\* C1: for any glyph -> value mapping over the font's glyphs, the empty one
\* included, AATLookup.write emits the structurally valid candidate among the
\* formats 0, 2, 6 and 8 of the smallest encoded size, the lowest format number
\* on a tie, and never format 4; the mapping of the glyph IDs 10..13 to 5 is
\* written as format 8 in 6 + 4 * valueSize bytes.
C1_WriteEmitsSmallestFormat ==
    lkOut1 # NoOutcome => EmitsBestFormat(lkOut1)

\* The same statement for the mappings that hold at least one glyph, which is
\* what the code does.
LookupNonEmptyEmitsSmallestFormat ==
    (lkOut1 # NoOutcome /\ lkValue # EmptyMapping) => EmitsBestFormat(lkOut1)

\* C2: encoding the same mapping twice, whatever the order in which the
\* entries of the mapping are enumerated, gives the same outcome and the same
\* bytes.
C2_WriteDeterministic ==
    (lkOut1 # NoOutcome /\ lkOut2 # NoOutcome) => lkOut1 = lkOut2

\* Two encodings of a mapping of several glyphs have both produced bytes.
C2_Witness ==
    /\ lkOut1.status = "ok"
    /\ lkOut2.status = "ok"
    /\ Cardinality(DOMAIN lkValue) >= 3

\* C10: AATLookup.read dispatches on the leading 16-bit format code alone:
\* the codes 0, 2, 4, 6 and 8 run the reader of that format, every other code
\* fails as an unsupported lookup format and yields no mapping.
C10_ReadDispatch ==
    lkData # <<>> =>
        LET code == FromBE(lkData, 0, 2)
        IN  IF code \in {0, 2, 4, 6, 8}
            THEN lkRead.reader = code
            ELSE /\ lkRead.status = "unsupported lookup format"
                 /\ ~lkRead.hasMapping
                 /\ lkRead.reader = -1

\* Bytes with an unknown leading code have been handed to the reader, and
\* bytes with a known code have been decoded into a mapping.
C10_Witness ==
    /\ lkData # <<>>
    /\ FromBE(lkData, 0, 2) \notin {0, 2, 4, 6, 8}
    /\ lkRead.status = "unsupported lookup format"

\* The candidates AATLookup.write builds for the mapping: for each, the size
\* its buildFormatN returned and the bytes its writeFormatN adds.
LookupCandidates ==
    LET InMapping(g) == g \in DOMAIN lkValue
        glyphs == SelectSeq(glyphOrder, InMapping)
        values == LookupValues(glyphOrder,
                               [i \in 1..Len(glyphs) |-> <<glyphs[i], lkValue[glyphs[i]]>>])
    IN  buildFormat0(Len(glyphOrder), values, lkValueSize)
        \o buildFormat2(values, lkValueSize)
        \o buildFormat6(values, lkValueSize)
        \o buildFormat8(values, lkValueSize)

\* C15: for every candidate format of a mapping, the size buildFormatN
\* returned is the number of bytes writeFormatN adds, and it is
\* 2 + numGlyphs * valueSize for format 0, 12 + (segments + 1) * (valueSize + 4)
\* for format 2, 12 + (entries + 1) * (valueSize + 2) for format 6 and
\* 6 + entries * valueSize for format 8; the size assertion of AATLookup.write
\* never fails.
C15_CandidateSizeExact ==
    /\ lkOut1.status # "AssertionError"
    /\ lkOut2.status # "AssertionError"
    /\ (lkOut1 # NoOutcome /\ DOMAIN lkValue # {}) =>
           LET candidates == LookupCandidates
           IN  /\ {candidates[i].lookupFormat : i \in 1..Len(candidates)}
                      = {f \in {0, 2, 6, 8} : StructurallyValid(f)}
               /\ \A i \in 1..Len(candidates) :
                      /\ candidates[i].dataSize = Len(candidates[i].data)
                      /\ candidates[i].dataSize = EncodedSize(candidates[i].lookupFormat)
               /\ lkOut1.status = "ok"

\* A mapping of every glyph of a three-glyph font, in two runs, with 4-byte
\* values has been written: all four formats are candidates.
C15_Witness ==
    /\ lkOut1.status = "ok"
    /\ lkValueSize = 4
    /\ Len(glyphOrder) = 3
    /\ Len(LookupCandidates) = 4
    /\ RunCount = 2

\* The sorted (glyph ID, value) list AATLookup.write hands to its encoders.
LookupSortedValues ==
    LET InMapping(g) == g \in DOMAIN lkValue
        glyphs == SelectSeq(glyphOrder, InMapping)
    IN  LookupValues(glyphOrder,
                     [i \in 1..Len(glyphs) |-> <<glyphs[i], lkValue[glyphs[i]]>>])

\* The segments (firstGlyph, lastGlyph, value) buildFormat2 finds.
LookupSegments ==
    LET values == LookupSortedValues
    IN  Format2Segments(values, 2, values[1][1], values[1][1], values[1][2])

\* The segments partition the mapping into maximal runs.
MaximalRuns(segments) ==
    /\ \A i \in 1..Len(segments) :
           /\ segments[i][1] <= segments[i][2]
           /\ \A g \in segments[i][1]..segments[i][2] :
                  g \in MappedIDs /\ ValueOfID(g) = segments[i][3]
    /\ \A i \in 1..(Len(segments) - 1) :
           /\ segments[i][2] < segments[i + 1][1]
           /\ \/ segments[i + 1][1] # segments[i][2] + 1
              \/ segments[i + 1][3] # segments[i][3]
    /\ UNION {segments[i][1]..segments[i][2] : i \in 1..Len(segments)} = MappedIDs

\* The bytes of a format-2 lookup: the format code, the binary-search
\* header that counts the segments only, one unit per segment, and the
\* terminator unit.
Format2Layout(data, segments) ==
    LET unitSize == lkValueSize + 4
        unitAt(i) == 12 + (i - 1) * unitSize
    IN  /\ Len(data) = 12 + (Len(segments) + 1) * unitSize
        /\ FromBE(data, 0, 2) = 2
        /\ FromBE(data, 2, 2) = unitSize
        /\ FromBE(data, 4, 2) = Len(segments)
        /\ \A i \in 1..Len(segments) :
               /\ FromBE(data, unitAt(i), 2) = segments[i][2]
               /\ FromBE(data, unitAt(i) + 2, 2) = segments[i][1]
               /\ FromBE(data, unitAt(i) + 4, lkValueSize) = segments[i][3]
        /\ SubSeq(data, unitAt(Len(segments) + 1) + 1, Len(data))
               = <<255, 255, 255, 255>> \o Zeros(lkValueSize)

\* C21: the format-2 segments AATLookup builds for a mapping are sorted by
\* glyph ID and pairwise disjoint, each covers consecutive glyph IDs that
\* all map to the value of the segment, their union is the set of mapped
\* glyph IDs, and two consecutive segments are not adjacent or carry
\* different values; the bytes of the format hold the segments followed by
\* one terminator unit 0xFFFF, 0xFFFF, which numUnits does not count.
C21_Format2MaximalRuns ==
    (lkOut1 # NoOutcome /\ DOMAIN lkValue # {}) =>
        LET segments == LookupSegments
            candidate == buildFormat2(LookupSortedValues, lkValueSize)[1]
        IN  /\ MaximalRuns(segments)
            /\ Len(segments) = RunCount
            /\ Format2Layout(candidate.data, segments)
            /\ lkOut1.lookupFormat = 2 => lkOut1.data = candidate.data

\* A mapping of four glyphs has been written whose segments are a run of
\* two glyphs, an adjacent glyph with another value, and, in another
\* mapping, segments that a gap separates.
C21_Witness ==
    /\ lkOut1.status = "ok"
    /\ Len(glyphOrder) = 4
    /\ LookupSegments = << <<0, 1, 1>>, <<2, 2, 0>>, <<3, 3, 1>> >>

\* Segments with the same value that a gap in the glyph IDs separates, in
\* a lookup written as format 2.
LookupFormat2GapWritten ==
    /\ lkOut1.status = "ok"
    /\ lkOut1.lookupFormat = 2
    /\ DOMAIN lkValue # {}
    /\ LookupSegments = << <<0, 1, 1>>, <<3, 3, 1>> >>

\* The bytes AATLookup.write produced have been handed to AATLookup.read
\* as they were written.
LookupReadBack == lkData # <<>> /\ lkData = lkOut1.data

\* C23: for every non-empty mapping of glyphs of the font to values the
\* value converter can hold, AATLookup.read of the bytes AATLookup.write
\* produced returns the mapping written, the same glyphs with the same
\* values, whichever of the formats 0, 2, 6 and 8 was written.
C23_LookupRoundTrip ==
    (LookupReadBack /\ DOMAIN lkValue # {}) =>
        /\ lkOut1.lookupFormat \in {0, 2, 6, 8}
        /\ lkRead.status = "ok"
        /\ lkRead.reader = lkOut1.lookupFormat
        /\ lkRead.hasMapping
        /\ DOMAIN lkRead.mapping = DOMAIN lkValue
        /\ \A g \in DOMAIN lkValue : lkRead.mapping[g] = lkValue[g]

\* A mapping of three of four glyphs, a run of two and a single glyph
\* behind a gap, has been written as format 2 and read back.
C23_Witness ==
    /\ LookupReadBack
    /\ lkOut1.lookupFormat = 2
    /\ lkRead.status = "ok"
    /\ MappedIDs = {0, 1, 3}
    /\ RunCount = 2

\* Mappings written as format 0, as format 6 and as format 8 have been
\* read back.
LookupReadBackFormat0 ==
    LookupReadBack /\ lkOut1.lookupFormat = 0 /\ lkRead.status = "ok" /\ RunCount = 2

LookupReadBackFormat6 ==
    LookupReadBack /\ lkOut1.lookupFormat = 6 /\ lkRead.status = "ok"
        /\ Cardinality(MappedIDs) = 2

LookupReadBackFormat8 ==
    LookupReadBack /\ lkOut1.lookupFormat = 8 /\ lkRead.status = "ok"
        /\ Cardinality(MappedIDs) = 4 /\ lkRead.mapping = ConcreteMapping(glyphOrder)

----------------------------------------------------------------------------
(* Properties of STXHeader.                                                 *)

\* The cells the encoder walks: the states, and the classes below the
\* glyph class count it derived.
StxCells == (1..Len(stxTable.States)) \X (0..(stxOut.glyphClassCount - 1))

\* The entry index the state array holds for a cell.
StxCellIndex(cell) ==
    stxOut.stateArray[(cell[1] - 1) * stxOut.glyphClassCount + cell[2] + 1]

StxCellBytes(cell) == Action_compile(stxActionClass, stxTable.States[cell[1]][cell[2]])

\* The entry index as the bytes of the state array section hold it.
StxWrittenIndex(cell) ==
    FromBE(stxOut.written,
           stxOut.stateArrayOffset
           + 2 * ((cell[1] - 1) * stxOut.glyphClassCount + cell[2]), 2)

\* C3: after STXHeader.write has encoded a state table, two cells whose
\* transitions compile to the same bytes hold the same entry index, two
\* cells whose transitions compile to different bytes hold different
\* indices, each index addresses the cell's bytes in the entry table, and the
\* entry table has one record per distinct compiled byte string.
C3_EntryDedup ==
    stxOut.status = "ok" =>
        /\ \A a \in StxCells : \A b \in StxCells :
               (StxCellBytes(a) = StxCellBytes(b)) <=> (StxCellIndex(a) = StxCellIndex(b))
        /\ \A a \in StxCells :
               /\ StxWrittenIndex(a) = StxCellIndex(a)
               /\ stxOut.entries[StxCellIndex(a) + 1] = StxCellBytes(a)
        /\ Len(stxOut.entries) = Cardinality({StxCellBytes(a) : a \in StxCells})

\* An encoded table in which two cells hold different transition objects
\* that compile to the same bytes, and a third cell compiles to other bytes.
C3_Witness ==
    /\ stxOut.status = "ok"
    /\ \E a \in StxCells : \E b \in StxCells :
           /\ stxTable.States[a[1]][a[2]] # stxTable.States[b[1]][b[2]]
           /\ StxCellBytes(a) = StxCellBytes(b)
    /\ Len(stxOut.entries) < Cardinality(StxCells)

\* The lookup indices the transitions of the table refer to, 0xFFFF apart.
StxReferenced ==
    UNION {{stxTable.States[s][c].MarkIndex, stxTable.States[s][c].CurrentIndex} :
               s \in 1..Len(stxTable.States), c \in 0..MaxClass} \ {NoLookup}

\* The number of per-glyph lookups recovered from the transitions.
StxRecoveredCount ==
    IF StxReferenced = {} THEN 0
    ELSE 1 + (CHOOSE m \in StxReferenced : \A k \in StxReferenced : k <= m)

\* C13: STXHeader.write of a contextual state table whose PerGlyphLookups
\* has another length than the count recovered from its transitions fails,
\* and nothing has been added to the caller's writer.
C13_LookupCountMismatchFails ==
    (/\ stxActionClass = "Contextual"
     /\ Len(stxTable.PerGlyphLookups) # StxRecoveredCount
     /\ stxOut # StxNoOutcome)
        => /\ stxOut.status \notin {"ok", "none"}
           /\ stxOut.written = <<>>

\* A table with one per-glyph lookup whose transitions refer to lookup 1,
\* that is to two lookups, and whose class map and cells are otherwise
\* encodable: the write has failed on the count.
C13_Witness ==
    /\ stxActionClass = "Contextual"
    /\ stxTable.GlyphClasses # EmptyMapping
    /\ Len(stxTable.PerGlyphLookups) = 1
    /\ StxRecoveredCount = 2
    /\ stxOut.status = "AssertionError"
    /\ stxOut.written = <<>>

\* The count is taken over every transition a state holds, those of classes
\* the class map does not use included: the write fails on a lookup index
\* that only an unwritten cell refers to.
StxUnwrittenCellCounts ==
    /\ stxActionClass = "Contextual"
    /\ \A g \in DOMAIN stxTable.GlyphClasses : stxTable.GlyphClasses[g] = 0
    /\ stxTable.GlyphClasses # EmptyMapping
    /\ Len(stxTable.States) = 1
    /\ stxTable.States[1][0].MarkIndex = NoLookup
    /\ stxTable.States[1][1].MarkIndex = 1
    /\ Len(stxTable.PerGlyphLookups) = 1
    /\ stxOut.status = "AssertionError"

\* The length of a section of n bytes once padded to a multiple of 4.
Padded4(n) == 4 * ((n + 3) \div 4)

\* The bytes of the output from byte offset pos on, n of them.
StxWrittenAt(pos, n) == SubSeq(stxOut.written, pos + 1, pos + n)

\* C16: the header STXHeader.write emits holds the largest class index of
\* GlyphClasses plus one, whatever GlyphClassCount the table carries, the
\* class table offset 16, or 20 for an action class with per-glyph lookups,
\* and for the state array, the entry table and the per-glyph table the
\* previous offset plus the padded length of the previous section; every
\* offset is a multiple of 4, and the class table, the state array, the
\* entry table and the per-glyph table follow the header in this order with
\* no byte between them.
C16_HeaderDerived ==
    stxOut.status = "ok" =>
        LET contextual == stxActionClass = "Contextual"
            header == IF contextual THEN 20 ELSE 16
            classes == {stxTable.GlyphClasses[g] : g \in DOMAIN stxTable.GlyphClasses}
            count == 1 + (CHOOSE m \in classes : \A c \in classes : c <= m)
            classOffset == FromBE(stxOut.written, 4, 4)
            stateOffset == FromBE(stxOut.written, 8, 4)
            entryOffset == FromBE(stxOut.written, 12, 4)
            stateLength == Padded4(2 * Len(stxTable.States) * count)
            entryLength == Padded4((IF contextual THEN 8 ELSE 4) * Len(stxOut.entries))
            perGlyphOffset == IF contextual THEN FromBE(stxOut.written, 16, 4)
                              ELSE entryOffset + entryLength
        IN  /\ FromBE(stxOut.written, 0, 4) = count
            /\ classOffset = header
            /\ stateOffset = classOffset + Len(stxOut.glyphClassData)
            /\ entryOffset = stateOffset + stateLength
            /\ perGlyphOffset = entryOffset + entryLength
            /\ Len(stxOut.written) = perGlyphOffset + Len(stxOut.perGlyphData)
            /\ \A o \in {classOffset, stateOffset, entryOffset, perGlyphOffset} : o % 4 = 0
            /\ StxWrittenAt(classOffset, Len(stxOut.glyphClassData)) = stxOut.glyphClassData
            /\ StxWrittenAt(stateOffset, stateLength)
                   = pad(Flatten([k \in 1..Len(stxOut.stateArray) |->
                                     BE(stxOut.stateArray[k], 2)]), 4)
            /\ StxWrittenAt(entryOffset, entryLength) = pad(Flatten(stxOut.entries), 4)
            /\ StxWrittenAt(perGlyphOffset, Len(stxOut.perGlyphData)) = stxOut.perGlyphData
            /\ contextual \/ stxOut.perGlyphData = <<>>

\* A contextual table that carries GlyphClassCount 2 and whose glyphs are all
\* of class 0 has been written with one lookup: the count written is 1, and
\* the state array of one cell was padded from 2 to 4 bytes.
C16_Witness ==
    /\ stxOut.status = "ok"
    /\ stxActionClass = "Contextual"
    /\ stxTable.GlyphClassCount = 2
    /\ FromBE(stxOut.written, 0, 4) = 1
    /\ Len(stxTable.States) = 1
    /\ Len(stxTable.PerGlyphLookups) = 1
    /\ FromBE(stxOut.written, 12, 4) - FromBE(stxOut.written, 8, 4) = 4
    /\ Len(stxOut.perGlyphData) > 0

\* A rearrangement table has been written: a header of 16 bytes and no
\* per-glyph table.
StxRearrangementWritten ==
    /\ stxOut.status = "ok"
    /\ stxActionClass = "Rearrangement"
    /\ Len(stxTable.States) = 1
    /\ FromBE(stxOut.written, 4, 4) = 16

\* The state table written has at least one state, and the bytes
\* STXHeader.write produced for it have been handed to STXHeader.read.
StxReadBack ==
    /\ stxRead # StxNotRead
    /\ Len(stxTable.States) >= 1

\* The table read has the glyph class count, the number of states and, in
\* every state, the transition of every class of the table written.  Two
\* transitions are the same when they compile to the same entry.
StxSameStates ==
    /\ stxRead.status = "ok"
    /\ stxRead.GlyphClassCount = STXHeader_glyphClassCount(stxTable)
    /\ Len(stxRead.States) = Len(stxTable.States)
    /\ \A s \in 1..Len(stxTable.States) :
           \A c \in 0..(STXHeader_glyphClassCount(stxTable) - 1) :
               /\ s \in DOMAIN stxRead.States
               /\ c \in DOMAIN stxRead.States[s]
               /\ Action_compile(stxActionClass, stxRead.States[s][c])
                      = Action_compile(stxActionClass, stxTable.States[s][c])

\* C24: for every state table with at least one state, whose states define
\* a transition for every class, STXHeader.read of the bytes
\* STXHeader.write produced yields the GlyphClassCount written and as many
\* states as the table written, each with the same transition per class:
\* the padding of the state array to 4 bytes adds no state.
C24_StxStateCountRoundTrip == StxReadBack => StxSameStates

\* The same for the tables whose state array holds an even number of
\* cells or which have at least two glyph classes: these read back as
\* written.
StxRoundTripWithoutOddSingleClass ==
    (/\ StxReadBack
     /\ \/ STXHeader_glyphClassCount(stxTable) >= 2
        \/ Len(stxTable.States) % 2 = 0)
        => StxSameStates

\* A table with one glyph class and an odd number of states reads back
\* with one state more: the two padding bytes of the state array are read
\* as the row of another state, whose transition is the entry 0.
StxOddSingleClassGainsState ==
    (/\ StxReadBack
     /\ STXHeader_glyphClassCount(stxTable) = 1
     /\ Len(stxTable.States) % 2 = 1)
        => /\ stxRead.status = "ok"
           /\ stxRead.GlyphClassCount = 1
           /\ Len(stxRead.States) = Len(stxTable.States) + 1
           /\ Action_compile(stxActionClass, stxRead.States[Len(stxRead.States)][0])
                  = stxOut.entries[1]

\* A table of one state and one glyph class has been written and read: the
\* table read has two states.
StxExtraStateRead ==
    /\ stxRead.status = "ok"
    /\ Len(stxTable.States) = 1
    /\ stxOut.glyphClassCount = 1
    /\ Len(stxRead.States) = 2

\* A table of one state and two glyph classes has been written and read:
\* the state array is not padded, and the table read has one state.
StxOneStateReadBack ==
    /\ stxRead.status = "ok"
    /\ Len(stxTable.States) = 1
    /\ stxOut.glyphClassCount = 2
    /\ Len(stxRead.States) = 1
    /\ stxActionClass = "Contextual"
    /\ Len(stxRead.PerGlyphLookups) = 2

----------------------------------------------------------------------------
(* Properties of readArray and _LazyList.                                   *)

\* The eager per-element decode of the bytes a lazy list stands for.
EagerDecode ==
    readArray_eager(lzConv, lzTableDict, lzData, lzList.pos, lzCount, <<>>)

EagerValue(i) == EagerDecode.list.data[i + 1].value

\* The positions of the list that hold a decoded value.
ResolvedPositions == {i \in 0..(lzCount - 1) : ~lzList.data[i + 1].missing}

\* C4: on the lazy path of readArray, every value the lazy list returns for
\* a position, by an index or inside a slice, and every value it has stored
\* for a position, is the value the eager decode of the same bytes yields at
\* that position, whatever accesses came before.
C4_LazyEqualsEager ==
    lzList.kind = "lazy" =>
        /\ EagerDecode.status = "ok"
        /\ \A i \in ResolvedPositions : lzList.data[i + 1].value = EagerValue(i)
        /\ lzGot.kind = "item" =>
               /\ lzGot.status = "ok"
               /\ lzGot.value = EagerValue(lzGot.i)
        /\ lzGot.kind = "slice" =>
               LET first == Min2(lzGot.i, lzCount)
                   stop == Min2(lzGot.j, lzCount)
               IN  /\ lzGot.status = "ok"
                   /\ lzGot.value = [x \in 1..(stop - first) |-> EagerValue(first + x - 1)]

\* A position of a lazy list of shorts is indexed after a slice of two other
\* positions has been forced.
C4_Witness ==
    /\ lzList.kind = "lazy"
    /\ lzConv = "Short"
    /\ lzGot.kind = "item"
    /\ lzGot.i > 0
    /\ Cardinality(ResolvedPositions) = 3

\* The positions the access that leads to the next state covers: the
\* position indexed, or the positions of the slice that the list has.
LazyTouched == {p \in 0..(lzCount - 1) : lzGot'.i <= p /\ p < lzGot'.j}

\* One index or slice access of a lazy list.
LazyAccessStep ==
    /\ lzList.kind = "lazy"
    /\ lzGot'.kind \in {"item", "slice"}
    /\ lzGot'.n = lzGot.n + 1

\* What an access does to the positions: a placeholder it covers is read
\* once, from pos + p * recordSize, and replaced by the value read; a value
\* it covers is kept and not read again; a position it does not cover keeps
\* its slot; the list's reader is left alone when no placeholder was
\* covered; and what is returned for a slice is the plain sequence of the
\* values of its positions, the list remaining lazy.
LazyAccessMemoizes ==
    LazyAccessStep =>
        /\ \A p \in 0..(lzCount - 1) :
               IF p \in LazyTouched /\ lzList.data[p + 1].missing
               THEN /\ lzReads'[p + 1] = lzReads[p + 1] + 1
                    /\ lzList'.data[p + 1] =
                           Item(Conv_read(lzConv, EmptyMapping, lzData,
                                          lzList.pos + p * lzList.recordSize).value)
               ELSE /\ lzReads'[p + 1] = lzReads[p + 1]
                    /\ lzList'.data[p + 1] = lzList.data[p + 1]
        /\ (\A p \in LazyTouched : ~lzList.data[p + 1].missing) =>
               lzList'.readerPos = lzList.readerPos
        /\ \A p \in 0..(lzCount - 1) : lzReads'[p + 1] <= 1
        /\ lzList'.kind = "lazy"
        /\ lzGot'.kind = "slice" =>
               /\ Len(lzGot'.value) = Cardinality(LazyTouched)
               /\ \A x \in 1..Len(lzGot'.value) :
                      lzGot'.value[x] = lzList'.data[lzGot'.i + x].value

\* C17: over any sequence of index and slice accesses of a lazy list, each
\* position is decoded at most once, on its first access, and later accesses
\* return the stored value without touching the reader; an access leaves the
\* slots of the positions it does not cover as they were, and a slice
\* returns a plain list.
C17_LazyMemoization == [][LazyAccessMemoizes]_vars

\* A position of a lazy list has been indexed when it already held a value:
\* the list's reader is not where a read of this position leaves it, the
\* position was read once, and every position but this one and the next one
\* is still a placeholder.
C17_Witness ==
    /\ lzList.kind = "lazy"
    /\ lzGot.kind = "item"
    /\ lzGot.status = "ok"
    /\ lzGot.n = 2
    /\ lzList.readerPos # lzList.pos + (lzGot.i + 1) * lzList.recordSize
    /\ lzReads[lzGot.i + 1] = 1
    /\ ResolvedPositions = {lzGot.i, lzGot.i + 1}
\* The eager decode of the array from where the reader was handed over.
EagerFromStart ==
    readArray_eager(lzConv, lzTableDict, lzData, StartPos, lzCount, <<>>)

\* The bytes one record of the converter takes, for the converters that
\* have a fixed record size.
FixedRecordSize == IF lzConv = "UInt8" THEN 1 ELSE 2

\* C18: when font.lazy is set, the count exceeds 8 and the element
\* converter has a fixed record size, readArray returns a lazy list without
\* decoding an element and leaves the outer reader count * recordSize
\* further, where the eager decode of the count elements leaves it, and no
\* later access of the list moves the outer reader, the list reading through
\* its own reader that started at the start of the array; in every other
\* case readArray decodes the count elements and returns a plain list.
C18_LazyPathAdvancesOuterCursor ==
    lzList # NoList =>
        IF lzFontLazy /\ lzCount > 8 /\ lzConv \in {"UInt8", "Short"}
        THEN /\ lzList.kind = "lazy"
             /\ lzList.pos = StartPos
             /\ lzList.recordSize = FixedRecordSize
             /\ lzReaderPos = StartPos + lzCount * FixedRecordSize
             /\ lzReaderPos = EagerFromStart.readerPos
             /\ lzGot.kind = "readArray" =>
                    /\ lzList.readerPos = StartPos
                    /\ \A p \in 1..lzCount :
                           lzList.data[p].missing /\ lzReads[p] = 0
        ELSE /\ lzList = EagerFromStart.list
             /\ lzList.kind = "list"
             /\ Len(lzList.data) = lzCount
             /\ \A p \in 1..lzCount : ~lzList.data[p].missing
             /\ lzReaderPos = EagerFromStart.readerPos

\* A lazy list of nine shorts has been accessed twice, the list's own reader
\* has moved, and the outer reader is 18 bytes past the start of the array.
C18_Witness ==
    /\ lzList.kind = "lazy"
    /\ lzConv = "Short"
    /\ lzCount = 9
    /\ lzGot.n = 2
    /\ lzList.readerPos # StartPos
    /\ lzList.readerPos # lzReaderPos
    /\ lzReaderPos = StartPos + 18

\* With font.lazy set, an array of eight shorts, and an array of nine rows
\* of a converter without a fixed record size, are decoded eagerly.
EagerAtThreshold ==
    /\ lzFontLazy
    /\ lzConv = "Short"
    /\ lzCount = LazyThreshold
    /\ lzList.kind = "list"

EagerWithoutRecordSize ==
    /\ lzFontLazy
    /\ lzConv = "VarDataValue"
    /\ lzCount > LazyThreshold
    /\ lzList.kind = "list"
    /\ Len(lzList.data) = lzCount

----------------------------------------------------------------------------
(* Properties of the offset converters.                                     *)

\* The declared width of the offset: 4 bytes for the long variants.
DeclaredWidth == IF tbConv \in {"LTable", "ExtSubTable"} THEN 4 ELSE 2

\* write(None) has appended an all-zero offset of the declared width and has
\* changed no other item: no sub-writer is registered.
NullOffsetWritten ==
    tbWriter.items = Append(tbWriter0.items, DataItem(Zeros(DeclaredWidth)))

\* An offset of 0 lies under the reader.
ZeroOffsetUnderReader ==
    /\ InData(tbData, tbReaderPos, DeclaredWidth)
    /\ FromBE(tbData, tbReaderPos, DeclaredWidth) = 0

\* read has returned None, has created no sub-reader and has read the bytes
\* of the offset and no other.
NoneReadFromOffsetOnly ==
    /\ tbRead.status = "ok"
    /\ tbRead.value = None
    /\ tbRead.subReaders = <<>>
    /\ tbRead.pos = tbReaderPos + DeclaredWidth
    /\ tbRead.bytesRead = tbReaderPos..(tbReaderPos + DeclaredWidth - 1)

\* C5 as stated: writing None emits an all-zero offset of the declared width
\* and changes nothing else in the writer, no attribute included; reading an
\* offset of 0 returns None, creates no sub-reader and reads no further byte.
C5_NullOffsetChangesNothingElse ==
    /\ (tbWrote /\ tbValue = None) =>
           /\ NullOffsetWritten
           /\ tbWriter.attrs = tbWriter0.attrs
    /\ (tbRead # TableNotRead /\ ZeroOffsetUnderReader) => NoneReadFromOffsetOnly

\* C5, amended: as above, except that ExtSubTable.write sets the writer's
\* Extension attribute to True, also for a None value.
C5_NullOffset ==
    /\ (tbWrote /\ tbValue = None) =>
           /\ NullOffsetWritten
           /\ tbWriter.attrs = (IF tbConv = "ExtSubTable"
                                THEN Put(tbWriter0.attrs, "Extension", TRUE)
                                ELSE tbWriter0.attrs)
    /\ (tbRead # TableNotRead /\ ZeroOffsetUnderReader) => NoneReadFromOffsetOnly

\* An ExtSubTable has written None to a writer that had no Extension
\* attribute, and has read None from an offset of 0 inside the data.
C5_Witness ==
    /\ tbWrote
    /\ tbValue = None
    /\ tbConv = "ExtSubTable"
    /\ "Extension" \notin DOMAIN tbWriter0.attrs
    /\ tbReaderPos > 0
    /\ ZeroOffsetUnderReader
    /\ tbRead.status = "ok"


----------------------------------------------------------------------------
(* Properties of StructWithLength.write.                                    *)

\* The items the struct's compile added to the writer.
SwlAdded(writer) == SubSeq(writer.items, Len(swWriter0.items) + 1, Len(writer.items))

\* N, the number of bytes the struct's compile added to the writer.
SwlN == ItemsLength(SwlAdded(swOut.compiled))

\* The index, among the items added, of the item StructLength was written
\* as: behind the Format and behind every item of the fields before it.
RECURSIVE SumSeq(_)
SumSeq(s) == IF s = <<>> THEN 0 ELSE Head(s) + SumSeq(Tail(s))

SwlFieldIndex ==
    (IF swSchema.formatSwitching THEN 1 ELSE 0) + SumSeq(swSchema.before) + 1

SwlPlaceholder ==
    CASE swSchema.staticSize = 1 -> <<222>>
      [] swSchema.staticSize = 2 -> <<222, 173>>
      [] swSchema.staticSize = 4 -> <<222, 173, 190, 239>>
      [] OTHER -> <<>>

\* C6: when StructWithLength.write has returned, the StructLength field in
\* the output holds N, the number of bytes the struct's compile added, in
\* the 1, 2 or 4 bytes of the field; the struct's compile had emitted the
\* field as the placeholder 0xDE / 0xDEAD / 0xDEADBEEF of that width, the
\* patch replaced that one item in place and left every other item and the
\* length of the output as they were; and when the item at the computed
\* index is not the placeholder, the write fails.
C6_StructLengthIsCompiledSize ==
    /\ swOut.status = "ok" =>
           /\ swSchema.staticSize \in {1, 2, 4}
           /\ SwlAdded(swOut.compiled)[SwlFieldIndex].bytes = SwlPlaceholder
           /\ SwlAdded(swWriter)[SwlFieldIndex].kind = "data"
           /\ Len(SwlAdded(swWriter)[SwlFieldIndex].bytes) = swSchema.staticSize
           /\ FromBE(SwlAdded(swWriter)[SwlFieldIndex].bytes, 0, swSchema.staticSize) = SwlN
           /\ Len(swWriter.items) = Len(swOut.compiled.items)
           /\ \A i \in 1..Len(swWriter.items) :
                  i # Len(swWriter0.items) + SwlFieldIndex =>
                      swWriter.items[i] = swOut.compiled.items[i]
           /\ SubSeq(swWriter.items, 1, Len(swWriter0.items)) = swWriter0.items
           /\ Writer_getDataLength(swWriter) = Writer_getDataLength(swOut.compiled)
    /\ (/\ swOut.status # "none"
        /\ swSchema.staticSize \in {1, 2, 4}
        /\ \/ swOut.lengthIndex >= Len(swOut.compiled.items)
           \/ swOut.compiled.items[swOut.lengthIndex + 1].kind # "data"
           \/ swOut.compiled.items[swOut.lengthIndex + 1].bytes # SwlPlaceholder)
       => swOut.status # "ok"

\* A format-switching struct with a field before its 4-byte StructLength and
\* offsets behind it has been written to a writer that held an item.
C6_Witness ==
    /\ swOut.status = "ok"
    /\ swSchema.formatSwitching
    /\ swSchema.staticSize = 4
    /\ Len(swSchema.before) = 1
    /\ Len(swSchema.after) = 3
    /\ swWriter0.items # <<>>
    /\ SwlN = 15


----------------------------------------------------------------------------
(* Properties of DeltaValue.                                                *)

DeltaBits == Pow(2, dvTableDict["DeltaFormat"])

DeltaItems == dvTableDict["EndSize"] - dvTableDict["StartSize"] + 1

\* The number of 16-bit words that hold n fields of DeltaBits bits.
DeltaWords == (DeltaItems * DeltaBits + 15) \div 16

\* The word k (from 0) of the packing: field j of the word, from its most
\* significant end, holds the two's complement of the delta, and the fields
\* behind the last delta are zero.
RECURSIVE PackedWord(_, _)
PackedWord(k, j) ==
    IF j * DeltaBits >= 16 THEN 0
    ELSE LET i == k * (16 \div DeltaBits) + j + 1
             field == IF i <= DeltaItems THEN dvValue[i] % Pow(2, DeltaBits) ELSE 0
         IN  field * Pow(2, 16 - DeltaBits * (j + 1)) + PackedWord(k, j + 1)

\* The deltas are legal: the format is 1, 2 or 3, there is one delta for
\* each size, and every delta fits the field.
DeltaLegal ==
    /\ dvTableDict["DeltaFormat"] \in {1, 2, 3}
    /\ dvTableDict["StartSize"] <= dvTableDict["EndSize"]
    /\ Len(dvValue) = DeltaItems
    /\ \A i \in 1..Len(dvValue) :
           /\ dvValue[i] >= -Pow(2, DeltaBits - 1)
           /\ dvValue[i] <= Pow(2, DeltaBits - 1) - 1

\* C7: a legal delta list is written as the 16-bit words of the packing,
\* most significant field first and the last word padded with zeros, and
\* reading these words returns the list and consumes exactly these words.
C7_DeltaRoundTrip ==
    DeltaLegal =>
        /\ dvWritten # DeltaNotWritten =>
               /\ dvWritten.status = "ok"
               /\ dvWritten.data =
                      Flatten([k \in 1..DeltaWords |-> BE(PackedWord(k - 1, 0), 2)])
        /\ dvRead.status # "none" =>
               /\ dvRead.status = "ok"
               /\ dvRead.value = dvValue
               /\ dvRead.pos = Len(dvWritten.data)

\* Nine 2-bit deltas, the least and the greatest among them, have been
\* written as two words and read.
C7_Witness ==
    /\ DeltaLegal
    /\ dvTableDict["DeltaFormat"] = 1
    /\ DeltaItems = 9
    /\ dvValue[1] = -2
    /\ Len(dvWritten.data) = 4
    /\ dvRead.status = "ok"

\* C11: for a DeltaFormat outside {1, 2, 3}, DeltaValue.write fails on its
\* assertion and has written no byte, and DeltaValue.read fails on its
\* assertion with the reader where it was, no byte consumed.
C11_IllegalDeltaFormat ==
    dvTableDict["DeltaFormat"] \notin {1, 2, 3} =>
        /\ dvWritten # DeltaNotWritten => dvWritten = DeltaWritten("AssertionError", <<>>)
        /\ dvRead.status # "none" => dvRead = ReadFailed("AssertionError", 0)

\* Both calls have failed for DeltaFormat 4 and three sizes, with two bytes
\* under the reader.
C11_Witness ==
    /\ dvTableDict["DeltaFormat"] = 4
    /\ dvTableDict["EndSize"] - dvTableDict["StartSize"] + 1 = 3
    /\ Len(dvValue) = 3
    /\ dvWritten.status = "AssertionError"
    /\ dvRead.status = "AssertionError"

\* The same for DeltaFormat 0.
DeltaFormatZeroFails ==
    /\ dvTableDict["DeltaFormat"] = 0
    /\ dvTableDict["EndSize"] - dvTableDict["StartSize"] + 1 = 3
    /\ dvWritten.status = "AssertionError"
    /\ dvRead.status = "AssertionError"

----------------------------------------------------------------------------
(* Properties of VarIdxMapValue.                                            *)

\* The positions of the mapping that hold 0x00012345.
PositionsOf12345 == {i \in 1..Len(vmMapping) : vmMapping[i] = 74565}

\* C8 as stated: with innerBits = 9 and an entry the packed value fits,
\* reading the bytes written returns 0x00012345 where the mapping holds it.
C8_RoundTrip12345 ==
    (VarIdx_innerBits(vmFormat) = 9 /\ vmRead.status = "ok") =>
        \A i \in PositionsOf12345 : vmRead.value[i] = 74565

\* C8, amended: reading the bytes written returns an index where the
\* mapping holds it whenever the low 16 bits of the index are below
\* 2^innerBits; with innerBits = 9, 0x00012345 is read back as 0x00010145.
C8_RoundTripInnerFits ==
    vmRead.status = "ok" =>
        /\ Len(vmRead.value) = Len(vmMapping)
        /\ vmRead.pos = Len(vmWritten.data)
        /\ \A i \in 1..Len(vmMapping) :
               vmMapping[i] % 65536 < Pow(2, VarIdx_innerBits(vmFormat))
                   => vmRead.value[i] = vmMapping[i]
        /\ VarIdx_innerBits(vmFormat) = 9 =>
               \A i \in PositionsOf12345 : vmRead.value[i] = 65861

\* A mapping that holds 0x00012345 and 0x00010145 has been written with
\* innerBits = 9 and read.
C8_Witness ==
    /\ VarIdx_innerBits(vmFormat) = 9
    /\ vmMapping = <<74565, 65861>>
    /\ vmWritten.status = "ok"
    /\ vmRead.status = "ok"


\* The EntryFormat sets a bit outside 0x000F and 0x0030.
EntryFormatOutOfRange == vmFormat - BitAnd(vmFormat, 63) # 0

\* C12: with an EntryFormat that sets a bit outside the inner-bit-count and
\* entry-size fields, VarIdxMapValue.write fails and writes no entry, and
\* VarIdxMapValue.read fails and returns no mapping.
C12_EntryFormatOutOfRangeFails ==
    EntryFormatOutOfRange =>
        /\ vmWritten # VarIdxNotWritten =>
               /\ vmWritten.status # "ok"
               /\ vmWritten.data = <<>>
        /\ vmRead.status # "ok"

\* What the code does with such a format: the bits outside the two fields
\* are ignored, and the calls behave as for the format without them.
EntryFormatOutOfRangeIgnored ==
    EntryFormatOutOfRange =>
        /\ vmWritten # VarIdxNotWritten =>
               vmWritten = VarIdxMapValue_write(BitAnd(vmFormat, 63), vmMapping)
        /\ vmRead.status # "none" =>
               vmRead = VarIdxMapValue_read(BitAnd(vmFormat, 63), Len(vmMapping),
                                            vmWritten.data, 0)

\* A mapping of one entry has been written and read under EntryFormat 0x0040.
EntryFormat64Accepted ==
    /\ vmFormat = 64
    /\ vmMapping = <<325>>
    /\ vmWritten.status = "ok"
    /\ vmRead.status = "ok"

----------------------------------------------------------------------------
(* Properties of the propagator.                                            *)

\* C9: between top-level Struct.xmlRead calls the font has no propagator:
\* every call, one that fails in a child element or in the installation of
\* a propagated field included, has removed the names it installed when
\* control leaves it.
C9_PropagatorNeverLeftInstalled == prFont = NoPropagator

\* The calls that return leave the propagator as they found it.
PropagatorRestoredOnReturn ==
    (prLast # <<>> /\ prLast[1].status = "ok") => prFont = prLast[1].before

----------------------------------------------------------------------------
(* Properties of VarDataValue.                                              *)

VarRegionCount == vdTableDict["VarRegionCount"]

NumShorts == vdTableDict["NumShorts"]

\* The two's complement of a value in w bytes, most significant byte first.
TwosComplement(value, w) ==
    LET u == IF value < 0 THEN value + Pow(256, w) ELSE value
    IN  [b \in 1..w |-> (u \div Pow(256, w - b)) % 256]

\* The row has VarRegionCount values; the first min(VarRegionCount,
\* NumShorts) are in the signed 2-byte range and the others in the signed
\* 1-byte range.
VarDataLegal ==
    /\ Len(vdValue) = VarRegionCount
    /\ \A i \in 1..Len(vdValue) :
           IF i <= NumShorts THEN vdValue[i] >= -32768 /\ vdValue[i] <= 32767
           ELSE vdValue[i] >= -128 /\ vdValue[i] <= 127

\* C14: VarDataValue.write of a legal row emits its first min(VarRegionCount,
\* NumShorts) values as signed 2-byte integers, the others as signed bytes,
\* and one zero byte per slot by which NumShorts exceeds VarRegionCount;
\* VarDataValue.read of these bytes consumes exactly them and returns the row.
C14_VarDataAligned ==
    VarDataLegal =>
        /\ vdWritten # VarDataNotWritten =>
               /\ vdWritten.status = "ok"
               /\ vdWritten.data =
                      Flatten([i \in 1..VarRegionCount |->
                                  TwosComplement(vdValue[i],
                                                 IF i <= NumShorts THEN 2 ELSE 1)])
                      \o Zeros(IF NumShorts > VarRegionCount
                               THEN NumShorts - VarRegionCount ELSE 0)
        /\ vdRead.status # "none" =>
               /\ vdRead.status = "ok"
               /\ vdRead.value = vdValue
               /\ vdRead.pos = Len(vdWritten.data)

\* A row of two values under three short slots: two shorts, a negative one
\* among them, and one byte of padding have been written and read.
C14_Witness ==
    /\ VarRegionCount = 2
    /\ NumShorts = 3
    /\ vdValue = <<-129, 32767>>
    /\ Len(vdWritten.data) = 5
    /\ vdRead.status = "ok"
    /\ vdRead.pos = 5

\* A row of three values under one short slot: a short and two signed bytes.
VarDataMixedRow ==
    /\ VarRegionCount = 3
    /\ NumShorts = 1
    /\ vdValue = <<-32768, -128, 127>>
    /\ vdWritten.data = <<128, 0, 128, 127>>
    /\ vdRead.value = vdValue

\* A value outside the signed byte range in a byte slot stops the write with
\* the values before it written.
VarDataPartialWrite ==
    /\ VarRegionCount = 2
    /\ NumShorts = 1
    /\ vdValue = <<-1, -129>>
    /\ vdWritten = VarDataWritten("struct.error", <<255, 255>>)

----------------------------------------------------------------------------
(* Properties of StructWithLength.read.                                     *)

\* The length the struct declares: its StructLength field as the bytes
\* under the reader hold it.
DeclaredLength == FromBE(srData, srStart, srSchema.lengthSize)

\* The bytes the nested decompile consumes.
DecompileConsumed == srSchema.lengthSize + srSchema.fieldBytes

\* C19: StructWithLength.read leaves the reader at the position it had
\* before the struct plus the StructLength the struct declares, whether the
\* nested decompile consumed fewer bytes, as many, or more.
C19_CursorAtDeclaredLength ==
    srRead.status = "ok" =>
        /\ srRead.value.StructLength = DeclaredLength
        /\ srRead.pos = srStart + DeclaredLength

\* A struct read from position 3 whose decompile consumed 2 bytes and which
\* declares 6: the reader is left at 9, beyond what was consumed.
C19_Witness ==
    /\ srRead.status = "ok"
    /\ srStart = 3
    /\ DecompileConsumed = 2
    /\ DeclaredLength = 6
    /\ srRead.pos = 9

\* A struct whose decompile consumed 6 bytes and which declares 1: the
\* reader is moved back.
StructReadOverread ==
    /\ srRead.status = "ok"
    /\ srStart = 3
    /\ DecompileConsumed = 6
    /\ DeclaredLength = 1
    /\ srRead.pos = 4

\* The nested decompile ran out of bytes: the read failed.
StructReadShortData ==
    /\ srRead.status = "struct.error"
    /\ Len(srData) < srStart + DecompileConsumed

----------------------------------------------------------------------------
(* Properties of the import, step by step.                                  *)

\* The propagated names of the table class of a call in progress.
FrameNames(k) ==
    {TableClasses[imStack[k].cls].propagated[i] :
        i \in 1..Len(TableClasses[imStack[k].cls].propagated)}

\* The call holds the cell of the name: the name is installed, and its cell
\* is the not-yet-set cell into the table of this call.
FrameHoldsCell(k, name) ==
    /\ imFont.has
    /\ name \in DOMAIN imFont.cells
    /\ imFont.cells[name] = CountReference(imStack[k].table)

\* C20 as stated: while an import runs, every xmlRead call in progress has
\* installed a not-yet-set cell for each propagated field of its table.
C20_EveryPropagatedFieldInstalled ==
    \A k \in 2..Len(imStack) : \A name \in FrameNames(k) : FrameHoldsCell(k, name)

\* The same for the table classes without a postRead method.
ImportCellsHeld ==
    \A k \in 2..Len(imStack) :
        ~TableClasses[imStack[k].cls].postRead =>
            \A name \in FrameNames(k) : FrameHoldsCell(k, name)

\* A step in which xmlRead creates the table of a child element: when the
\* class of the table has no postRead and one of its propagated names is
\* installed, the call fails on its assertion and every cell that was
\* installed is still the same cell; otherwise the call goes on to the
\* content of the element, no cell that was installed having changed.
ImportEnterStep ==
    (imStatus = "running" /\ imTables' = imTables + 1) =>
        LET class == TableClasses[Head(imStack[Len(imStack)].content).cls]
            names == {class.propagated[i] : i \in 1..Len(class.propagated)}
        IN  /\ \A name \in DOMAIN imFont.cells :
                   name \in DOMAIN imFont'.cells /\ imFont'.cells[name] = imFont.cells[name]
            /\ IF ~class.postRead /\ names \cap DOMAIN imFont.cells # {}
               THEN imStatus' = "AssertionError" /\ Len(imStack') = Len(imStack)
               ELSE imStatus' = "running" /\ Len(imStack') = Len(imStack) + 1

\* C20, for table classes without a postRead method: while an import runs,
\* every xmlRead call in progress holds a not-yet-set cell of its own for
\* each propagated field of its table, installed before any of its child
\* elements is imported, so that no name is installed by two calls at a
\* time; a call that finds one of its names installed fails on the
\* assertion and leaves the cell that is there in place.
C20_PropagatedFieldInstalledOnce == []ImportCellsHeld /\ [][ImportEnterStep]_vars

\* A table with ClassCount is being imported inside a table with
\* Class2Count and ClassCount: the inner call failed on its assertion, and
\* both cells are still those of the outer table.
C20_Witness ==
    /\ imStatus = "AssertionError"
    /\ Len(imStack) = 2
    /\ imStack[2].cls = "Two"
    /\ imTables = 2
    /\ FrameHoldsCell(2, "ClassCount")
    /\ FrameHoldsCell(2, "Class2Count")

\* Two tables with ClassCount are imported one after the other inside a
\* table without propagated fields: the second one holds the cell.
ImportSiblingsInstall ==
    /\ imStatus = "running"
    /\ Len(imStack) = 3
    /\ imStack[3].cls = "One"
    /\ imStack[3].table = 3
    /\ FrameHoldsCell(3, "ClassCount")

\* A table of a class with a postRead method and a propagated field is
\* being imported at the top: no propagator exists.
ImportPostReadInstallsNothing ==
    /\ imStatus = "running"
    /\ Len(imStack) = 2
    /\ imStack[2].cls = "Post"
    /\ imFont = NoCells

----------------------------------------------------------------------------
(* Properties of GlyphCIDMap.read.                                          *)

\* The count and the entries as the bytes under the reader hold them.
StoredCount == FromBE(cidData, cidStart, 2)

StoredCID(glyphID) == FromBE(cidData, cidStart + 2 + 2 * glyphID, 2)

\* The glyph IDs the result of the read holds: below the stored count and
\* the glyph count, and with a stored CID other than 0xFFFF.
KeptGlyphIDs ==
    {g \in 0..(Min2(StoredCount, Len(glyphOrder)) - 1) : StoredCID(g) # 65535}

\* C22: GlyphCIDMap.read does not fail, whether or not the stored count
\* exceeds the glyph count of the font; it leaves the reader behind all the
\* count entries, and its result holds exactly the glyphs with an ID below
\* min(count, numGlyphs) whose stored CID is not 0xFFFF, each with its
\* stored CID.
C22_CidMapClamped ==
    cidRead # ReadFailed("none", 0) =>
        /\ cidRead.status = "ok"
        /\ cidRead.pos = cidStart + 2 + 2 * StoredCount
        /\ DOMAIN cidRead.value = {glyphOrder[g + 1] : g \in KeptGlyphIDs}
        /\ \A g \in KeptGlyphIDs : cidRead.value[glyphOrder[g + 1]] = StoredCID(g)

\* A map of four entries has been read for a font of two glyphs: the
\* first glyph has no CID, the second has one, and the entries of the glyph
\* IDs 2 and 3, which hold CIDs, are dropped.
C22_Witness ==
    /\ cidRead.status = "ok"
    /\ Len(glyphOrder) = 2
    /\ StoredCount = 4
    /\ StoredCID(0) = 65535
    /\ StoredCID(1) = 258
    /\ StoredCID(2) = 258
    /\ StoredCID(3) = 0
    /\ DOMAIN cidRead.value = {glyphOrder[2]}
    /\ cidRead.pos = cidStart + 10

\* A map that stores fewer entries than the font has glyphs.
CidMapShorterThanFont ==
    /\ cidRead.status = "ok"
    /\ Len(glyphOrder) = 3
    /\ StoredCount = 1
    /\ cidRead.value = Put(EmptyMapping, glyphOrder[1], 0)
====
